---------------------------- MODULE Spec2Model ----------------------------
(***************************************************************************)
(* Model of the Bottle Factory Analyzer API (src/backend/app/main.py):     *)
(* the signal store, the fallback drift model, the lane resolvers, the     *)
(* fusion engine analyze_payload, the analysis_events ledger and the       *)
(* /events/stream live feed.                                               *)
(*                                                                         *)
(* Number representation.  Python floats are modelled in fixed point:      *)
(*   - scores, thresholds and component values are in hundredths of a     *)
(*     score point (Scale = 100, so 60.0 is 6000);                         *)
(*   - network_burst_ratio is in hundredths (0.72 is 72);                  *)
(*   - rates, counts and attempts are integers in their natural unit;      *)
(*   - time is in whole seconds on one UTC axis;                           *)
(*   - z-scores are in hundredths, saturated at ZSat.                      *)
(* An Optional[T] value is None == << >> or Some(v) == << v >>.            *)
(***************************************************************************)
EXTENDS Integers, Sequences, FiniteSets, TLC

VARIABLES
    now,                      \* the wall clock read by _utc_now()
    LATEST_VISION_SIGNAL,     \* Optional VisionSignalState
    LATEST_SECURITY_SIGNAL,   \* Optional SecuritySignalState
    FALLBACK_MODEL,           \* the three rolling windows of OnlineAnomalyModel
    METRICS_COUNTERS,         \* the process-wide counters
    USE_FALLBACK_DRIFT_MODEL, \* the environment setting, read once at import
    last,                     \* the call that has just returned, with what it returned
    analyses,                 \* number of analyze_payload calls made so far
    SIGNAL_LOCK,              \* threading.Lock: None when free, else Some(holder)
    thread,                   \* per worker thread: the store call it is executing
    completed_put,            \* per kind: the signal of the latest completed put
    analysis_events_id_seq,   \* last value of the BIGSERIAL sequence of the table
    analysis_events,          \* the committed rows of the table, in commit order
    csv_rows,                 \* number of rows written to the CSV log
    request,                  \* per worker thread: the POST /analyze call it is executing
    requests,                 \* number of POST /analyze calls started so far
    session,                  \* the /events/stream generator of one client
    disconnected,             \* the client of the session has gone away
    METRICS_LOCK,             \* threading.Lock: None when free, else Some(holder)
    handler,                  \* per worker thread: the route handler it is executing
    returned,                 \* per counter: the calls that returned with it due
    sessions,                 \* per client of the event loop: its /events/stream generator
    event_loop                \* the generator the event loop's thread is executing, or None

engineVars == << now, LATEST_VISION_SIGNAL, LATEST_SECURITY_SIGNAL,
                 FALLBACK_MODEL, METRICS_COUNTERS, USE_FALLBACK_DRIFT_MODEL,
                 last, analyses >>

storeVars == << SIGNAL_LOCK, thread, completed_put >>

ledgerVars == << analysis_events_id_seq, analysis_events, csv_rows, request,
                requests, session, disconnected >>

metricsVars == << METRICS_LOCK, handler, returned >>

loopVars == << sessions, event_loop >>

vars == << engineVars, storeVars, ledgerVars, metricsVars, loopVars >>

-----------------------------------------------------------------------------
(* Optional values and small helpers *)

None == << >>

Some(v) == << v >>

IsSome(o) == o # None

Get(o) == o[1]

Min(a, b) == IF a <= b THEN a ELSE b

Max(a, b) == IF a >= b THEN a ELSE b

Abs(a) == IF a < 0 THEN -a ELSE a

\* The element of a one-element set.  TheOne({ e(x) : x \in { v } }) is
\* e(v) with v evaluated once: the model checker evaluates a LET definition
\* again at each use, and a value bound by a set constructor only once.
TheOne(S) == CHOOSE x \in S : TRUE

-----------------------------------------------------------------------------
(* Configuration: the environment defaults of main.py lines 29-34 *)

Scale == 100

\* Mutant of PROCESS_ANOMALY_THRESHOLD: the threshold of the network lane
PROCESS_ANOMALY_THRESHOLD_of_network == 55 * Scale

PROCESS_ANOMALY_THRESHOLD == 6000

NETWORK_ALERT_THRESHOLD == 5500

EXPECTED_PACKET_RATE == 130

VISION_SIGNAL_STALE_SECONDS == 8

SECURITY_SIGNAL_STALE_SECONDS == 8

MODEL_VERSION == "hybrid-vision-signal-v2"

window_size == 120

MinSamples == 20

ZSat == 10000

-----------------------------------------------------------------------------
(* clamp: max(minimum, min(maximum, value)) *)

\* Mutant of clamp: the upper limit is not applied
clamp_no_maximum(value, minimum, maximum) == Max(minimum, value)

clamp(value, minimum, maximum) == Max(minimum, Min(maximum, value))

-----------------------------------------------------------------------------
(* OnlineAnomalyModel: the fallback drift model *)

\* sum(history), by halving the index range
SeqSum(s) ==
    LET part[lo \in Nat, hi \in Nat] ==
            IF lo > hi THEN 0
            ELSE IF lo = hi THEN s[lo]
            ELSE part[lo, (lo + hi) \div 2] + part[(lo + hi) \div 2 + 1, hi]
    IN part[1, Len(s)]

\* sum(item ** 2 for item in history)
SeqSumSq(s) == TheOne({ SeqSum(sq) : sq \in { [ i \in 1..Len(s) |-> s[i] * s[i] ] } })

\* floor of the square root, by bisection
ISqrt(n) ==
    LET root[lo \in Nat, hi \in Nat] ==
            IF lo >= hi THEN lo
            ELSE IF ((lo + hi + 1) \div 2) * ((lo + hi + 1) \div 2) <= n
                 THEN root[(lo + hi + 1) \div 2, hi]
                 ELSE root[lo, (lo + hi + 1) \div 2 - 1]
    IN root[0, Min(n, 46340)]

\* deque(maxlen=window_size).append: the oldest element is evicted when full
deque_append(history, value) ==
    IF Len(history) >= window_size
    THEN Append(Tail(history), value)
    ELSE Append(history, value)

\* Mutant of zscore: no cold start, any non-empty window is scored against
zscore_no_cold_start(value, history) ==
    IF Len(history) = 0 THEN 0
    ELSE TheOne({ IF num = 0 THEN 0
                  ELSE IF D = 0 THEN ZSat
                  ELSE Min(ZSat, (num * 1000) \div ISqrt(D * 100)) :
                  num \in { Abs(Len(history) * value - SeqSum(history)) },
                  D \in { Len(history) * SeqSumSq(history)
                          - SeqSum(history) * SeqSum(history) } })

\* _zscore, in hundredths.  With n = len(history), S = sum and Q = sum of
\* squares: |value - mean| = |n*value - S| / n and std = sqrt(n*Q - S*S) / n,
\* so z = |n*value - S| / sqrt(n*Q - S*S); when the variance is 0 the
\* divisor is the floor 1e-6 and any deviation saturates.
zscore(value, history) ==
    IF Len(history) < MinSamples THEN 0
    ELSE TheOne({ IF num = 0 THEN 0
                  ELSE IF D = 0 THEN ZSat
                  ELSE Min(ZSat, (num * 1000) \div ISqrt(D * 100)) :
                  num \in { Abs(Len(history) * value - SeqSum(history)) },
                  D \in { Len(history) * SeqSumSq(history)
                          - SeqSum(history) * SeqSum(history) } })

RateReason == "Fallback drift model detected production-rate baseline shift"

RejectReason == "Fallback drift model detected reject-rate baseline shift"

InflightReason == "Fallback drift model detected in-flight accumulation shift"

\* Mutant of evaluate: the reading's values are appended first and the
\* z-scores are computed against windows that already hold them
evaluate_append_first(model, payload) ==
    TheOne({
        TheOne({
            [ score |-> clamp(((rate_z * 35 + reject_z * 40 + inflight_z * 25) * 22)
                                  \div 100, 0, 100 * Scale),
              reasons |-> (IF rate_z > 260 THEN << RateReason >> ELSE << >>)
                          \o (IF reject_z > 240 THEN << RejectReason >> ELSE << >>)
                          \o (IF inflight_z > 280 THEN << InflightReason >> ELSE << >>),
              model |-> appended ] :
            rate_z \in { zscore(payload.production_rate,
                                appended.production_rate_history) },
            reject_z \in { zscore(payload.reject_rate, appended.reject_rate_history) },
            inflight_z \in { zscore(payload.in_flight_bottles,
                                    appended.inflight_history) } }) :
        appended \in { [ production_rate_history |->
                             deque_append(model.production_rate_history,
                                          payload.production_rate),
                         reject_rate_history |->
                             deque_append(model.reject_rate_history, payload.reject_rate),
                         inflight_history |->
                             deque_append(model.inflight_history,
                                          payload.in_flight_bottles) ] } })

\* evaluate: scores against the windows as they are, then appends.
\* Returns the score, the reasons and the updated model.
evaluate(model, payload) ==
    TheOne({
        [ score |-> clamp(((rate_z * 35 + reject_z * 40 + inflight_z * 25) * 22) \div 100,
                          0, 100 * Scale),
          reasons |-> (IF rate_z > 260 THEN << RateReason >> ELSE << >>)
                      \o (IF reject_z > 240 THEN << RejectReason >> ELSE << >>)
                      \o (IF inflight_z > 280 THEN << InflightReason >> ELSE << >>),
          model |-> [ production_rate_history |->
                          deque_append(model.production_rate_history, payload.production_rate),
                      reject_rate_history |->
                          deque_append(model.reject_rate_history, payload.reject_rate),
                      inflight_history |->
                          deque_append(model.inflight_history, payload.in_flight_bottles) ] ] :
        rate_z \in { zscore(payload.production_rate, model.production_rate_history) },
        reject_z \in { zscore(payload.reject_rate, model.reject_rate_history) },
        inflight_z \in { zscore(payload.in_flight_bottles, model.inflight_history) } })

-----------------------------------------------------------------------------
(* Signal store reads *)

\* Mutant of parse_iso_timestamp: a string that does not parse gives the epoch
parse_iso_timestamp_epoch(value, t) ==
    IF value = None THEN t
    ELSE IF ~Get(value).iso THEN 0
    ELSE IF Get(value).offset = None THEN Get(value).local
    ELSE Get(value).local - Get(Get(value).offset)

\* _parse_iso_timestamp.  A timestamp input is None or a string, modelled
\* as the record [iso, local, offset]: whether datetime.fromisoformat
\* accepts it, the wall time it spells and its UTC offset in seconds (None
\* for a naive time, which is taken as UTC).  An empty string is falsy and
\* is covered by the iso = FALSE case.  The result is an instant on the UTC
\* axis; t is the receipt time.
parse_iso_timestamp(value, t) ==
    IF value = None THEN t
    ELSE IF ~Get(value).iso THEN t
    ELSE IF Get(value).offset = None THEN Get(value).local
    ELSE Get(value).local - Get(Get(value).offset)

\* An age that also grows with the number of analyses made so far: a clock
\* that is read again instead of the one reading the call was given
signal_age_seconds_by_call(captured_at, t) == Max(t + analyses - captured_at, 0)

\* Mutant of signal_age_seconds: the distance between the two instants
signal_age_seconds_distance(captured_at, t) == Abs(t - captured_at)

\* _signal_age_seconds, for a clock reading t
signal_age_seconds(captured_at, t) == Max(t - captured_at, 0)

\* Mutant of get_fresh_vision_signal: a signal exactly at the horizon is stale
get_fresh_vision_signal_strict(signal, t) ==
    IF signal = None THEN None
    ELSE IF signal_age_seconds(Get(signal).captured_at, t) >= VISION_SIGNAL_STALE_SECONDS
         THEN None
    ELSE signal

\* _get_fresh_vision_signal, for the slot content and a clock reading
get_fresh_vision_signal(signal, t) ==
    IF signal = None THEN None
    ELSE IF signal_age_seconds(Get(signal).captured_at, t) > VISION_SIGNAL_STALE_SECONDS
         THEN None
    ELSE signal

\* Mutant of get_fresh_security_signal: the age is not checked
get_fresh_security_signal_any_age(signal, t) == signal

\* _get_fresh_security_signal
get_fresh_security_signal(signal, t) ==
    IF signal = None THEN None
    ELSE IF signal_age_seconds(Get(signal).captured_at, t) > SECURITY_SIGNAL_STALE_SECONDS
         THEN None
    ELSE signal

-----------------------------------------------------------------------------
(* Lane resolvers *)

PayloadVisionReason == "Vision signal in telemetry payload indicates a defect candidate"

ExternalVisionReason == "External vision lane detected an anomaly candidate"

\* `version or MODEL_VERSION`: None and the empty string select the default
or_default(version) ==
    IF version = None THEN MODEL_VERSION
    ELSE IF Get(version) = "" THEN MODEL_VERSION
    ELSE Get(version)

\* Mutant of payload_vision_present: "and" written for "or"
payload_vision_present_and(payload) ==
    payload.vision_anomaly_score # None /\ payload.vision_defect_flag # None

\* the test of line 350: the reading carries a vision score or a vision flag
payload_vision_present(payload) ==
    payload.vision_anomaly_score # None \/ payload.vision_defect_flag # None

\* _resolve_process_lane.  Returns the ProcessLaneResult and the drift model
\* after the call (changed only on the fallback lane).
resolve_process_lane(payload, vision, model, t) ==
    LET payload_score == payload.vision_anomaly_score
        payload_flag == payload.vision_defect_flag
        signal == get_fresh_vision_signal(vision, t)
    IN IF payload_vision_present(payload)
       THEN LET resolved_score ==
                    clamp(IF payload_score # None THEN Get(payload_score)
                          ELSE IF Get(payload_flag) THEN 100 * Scale ELSE 0,
                          0, 100 * Scale)
                resolved_flag ==
                    IF payload_flag # None THEN Get(payload_flag)
                    ELSE resolved_score >= PROCESS_ANOMALY_THRESHOLD
            IN [ lane |-> [ score |-> resolved_score,
                            source |-> "payload-vision-signal",
                            reasons |-> IF resolved_flag THEN << PayloadVisionReason >>
                                        ELSE << >>,
                            component_label |-> "Vision model signal",
                            vision_anomaly_score |-> resolved_score,
                            vision_defect_flag |-> resolved_flag,
                            vision_inference_ms |-> payload.vision_inference_ms,
                            model_version |-> or_default(payload.vision_model_version) ],
                 model |-> model ]
       ELSE IF signal # None
       THEN [ lane |-> [ score |-> clamp(Get(signal).anomaly_score, 0, 100 * Scale),
                         source |-> "external-vision-signal",
                         reasons |-> IF Get(signal).defect_flag
                                     THEN << ExternalVisionReason >> ELSE << >>,
                         component_label |-> "Vision model signal",
                         vision_anomaly_score |->
                             clamp(Get(signal).anomaly_score, 0, 100 * Scale),
                         vision_defect_flag |-> Get(signal).defect_flag,
                         vision_inference_ms |-> Get(signal).inference_ms,
                         model_version |-> or_default(Some(Get(signal).model_version)) ],
              model |-> model ]
       ELSE IF USE_FALLBACK_DRIFT_MODEL
       THEN TheOne({
                [ lane |-> [ score |-> ev.score,
                             source |-> "fallback-telemetry-drift",
                             reasons |-> ev.reasons,
                             component_label |-> "Telemetry drift fallback model",
                             vision_anomaly_score |-> ev.score,
                             vision_defect_flag |-> ev.score >= PROCESS_ANOMALY_THRESHOLD,
                             vision_inference_ms |-> 0,
                             model_version |-> "hybrid-rule-zscore-v1.1" ],
                  model |-> ev.model ] : ev \in { evaluate(model, payload) } })
       ELSE [ lane |-> [ score |-> 0,
                         source |-> "no-vision-signal",
                         reasons |-> << >>,
                         component_label |-> "Vision model signal",
                         vision_anomaly_score |-> 0,
                         vision_defect_flag |-> FALSE,
                         vision_inference_ms |-> 0,
                         model_version |-> MODEL_VERSION ],
              model |-> model ]

\* Mutant of resolve_network_inputs: the external signal overrides the packet
\* rate and the burst ratio but not the unauthorized-attempt count, and its
\* flag replaces the payload's instead of being or-ed with it
resolve_network_inputs_partial(payload, security, t) ==
    LET payload_flag == IF payload.security_flag # None
                        THEN Get(payload.security_flag) ELSE FALSE
        payload_source == IF payload.security_flag # None
                          THEN "payload-security-signal" ELSE "telemetry"
        external_signal == get_fresh_security_signal(security, t)
    IN IF external_signal # None
       THEN [ packet_rate |-> Get(external_signal).packet_rate,
              burst_ratio |-> Get(external_signal).burst_ratio,
              unauthorized_attempts |-> payload.network_unauthorized_attempts,
              security_flag |-> Get(external_signal).security_flag,
              source |-> "external-security-signal" ]
       ELSE [ packet_rate |-> payload.network_packet_rate,
              burst_ratio |-> payload.network_burst_ratio,
              unauthorized_attempts |-> payload.network_unauthorized_attempts,
              security_flag |-> payload_flag,
              source |-> payload_source ]

\* _resolve_network_inputs
resolve_network_inputs(payload, security, t) ==
    LET payload_flag == IF payload.security_flag # None
                        THEN Get(payload.security_flag) ELSE FALSE
        payload_source == IF payload.security_flag # None
                          THEN "payload-security-signal" ELSE "telemetry"
        external_signal == get_fresh_security_signal(security, t)
    IN IF external_signal # None
       THEN [ packet_rate |-> Get(external_signal).packet_rate,
              burst_ratio |-> Get(external_signal).burst_ratio,
              unauthorized_attempts |-> Get(external_signal).unauthorized_attempts,
              security_flag |-> payload_flag \/ Get(external_signal).security_flag,
              source |-> "external-security-signal" ]
       ELSE [ packet_rate |-> payload.network_packet_rate,
              burst_ratio |-> payload.network_burst_ratio,
              unauthorized_attempts |-> payload.network_unauthorized_attempts,
              security_flag |-> payload_flag,
              source |-> payload_source ]

-----------------------------------------------------------------------------
(* Fusion engine *)

\* Mutant of packet_component: the 35-point cap is not applied
packet_component_uncapped(packet_rate) ==
    Abs(packet_rate - EXPECTED_PACKET_RATE) * 110

\* Mutant of packet_component: a packet rate of 0 is taken as not reported
packet_component_unless_zero(packet_rate) ==
    IF packet_rate = 0 THEN 0
    ELSE Min(35 * Scale, Abs(packet_rate - EXPECTED_PACKET_RATE) * 110)

\* packet_rate_component = min(35.0, abs(packet_rate - EXPECTED_PACKET_RATE) * 1.1)
packet_component(packet_rate) ==
    Min(35 * Scale, Abs(packet_rate - EXPECTED_PACKET_RATE) * 110)

\* Mutant of combine_process_score: the two sub-scores are added
combine_process_score_sum(rule_process_score, lane_score) ==
    clamp(rule_process_score + lane_score, 0, 100 * Scale)

\* process_score = clamp(max(rule_process_score, process_lane.score))
combine_process_score(rule_process_score, lane_score) ==
    clamp(Max(rule_process_score, lane_score), 0, 100 * Scale)

\* Mutant of is_network_alert: the security flag is not consulted
is_network_alert_by_score(network_score, security_flag) ==
    network_score >= NETWORK_ALERT_THRESHOLD

\* network_alert = network_score >= NETWORK_ALERT_THRESHOLD or security_flag
is_network_alert(network_score, security_flag) ==
    network_score >= NETWORK_ALERT_THRESHOLD \/ security_flag

\* Mutant of risk_level_of: the band limits are exclusive
risk_level_of_exclusive(max_risk) ==
    IF max_risk > 80 * Scale THEN "critical"
    ELSE IF max_risk > 60 * Scale THEN "high"
    ELSE IF max_risk > 35 * Scale THEN "medium"
    ELSE "low"

\* Mutant of risk_level_of: the medium band starts at 45
risk_level_of_medium_from_45(max_risk) ==
    IF max_risk >= 80 * Scale THEN "critical"
    ELSE IF max_risk >= 60 * Scale THEN "high"
    ELSE IF max_risk >= 45 * Scale THEN "medium"
    ELSE "low"

\* The if / elif chain on max_risk
risk_level_of(max_risk) ==
    IF max_risk >= 80 * Scale THEN "critical"
    ELSE IF max_risk >= 60 * Scale THEN "high"
    ELSE IF max_risk >= 35 * Scale THEN "medium"
    ELSE "low"

\* Mutant of recommended_action_of: the single-lane branches are tested first
recommended_action_of_single_first(process_anomaly, network_alert) ==
    IF network_alert
    THEN "Segment PLC network, review suspicious traffic, and keep the line under close watch"
    ELSE IF process_anomaly
    THEN "Run quality/mechanical inspection and verify camera model threshold calibration"
    ELSE IF network_alert /\ process_anomaly
    THEN "Trigger safety lockout, isolate control network, inspect line for jam/reject spikes"
    ELSE "Continue baseline monitoring and keep collecting telemetry for drift tracking"

\* The if / elif chain on the two flags
recommended_action_of(process_anomaly, network_alert) ==
    IF network_alert /\ process_anomaly
    THEN "Trigger safety lockout, isolate control network, inspect line for jam/reject spikes"
    ELSE IF network_alert
    THEN "Segment PLC network, review suspicious traffic, and keep the line under close watch"
    ELSE IF process_anomaly
    THEN "Run quality/mechanical inspection and verify camera model threshold calibration"
    ELSE "Continue baseline monitoring and keep collecting telemetry for drift tracking"

\* The body of analyze_payload once the process lane and the network inputs
\* are resolved: rule contributions, scores, flags, risk level, action.
fuse(payload, process_lane, net) ==
    LET reject_component ==
            IF payload.reject_rate > 12
            THEN Min(40 * Scale, (payload.reject_rate - 12) * 2 * Scale) ELSE 0
        throughput_component ==
            IF payload.production_rate < 4 /\ payload.conveyor_running
            THEN 22 * Scale ELSE 0
        accumulation_component ==
            IF payload.in_flight_bottles > 6 THEN 25 * Scale ELSE 0
        alarm_component ==
            IF payload.output_alarm_horn THEN 12 * Scale ELSE 0
        reject_gate_component ==
            IF payload.output_reject_gate /\ payload.reject_rate > 8
            THEN 10 * Scale ELSE 0
        rule_process_score == reject_component + throughput_component
                              + accumulation_component + alarm_component
                              + reject_gate_component
        rule_components ==
            (IF payload.reject_rate > 12
             THEN << << "Reject rate deviation", reject_component >> >> ELSE << >>)
            \o (IF payload.production_rate < 4 /\ payload.conveyor_running
                THEN << << "Throughput collapse while conveyor running",
                           throughput_component >> >> ELSE << >>)
            \o (IF payload.in_flight_bottles > 6
                THEN << << "In-flight bottle accumulation", accumulation_component >> >>
                ELSE << >>)
            \o (IF payload.output_alarm_horn
                THEN << << "PLC alarm horn active", alarm_component >> >> ELSE << >>)
            \o (IF payload.output_reject_gate /\ payload.reject_rate > 8
                THEN << << "Reject gate with elevated rejects", reject_gate_component >> >>
                ELSE << >>)
        rule_reasons ==
            (IF payload.reject_rate > 12
             THEN << "Reject rate above expected baseline" >> ELSE << >>)
            \o (IF payload.production_rate < 4 /\ payload.conveyor_running
                THEN << "Conveyor running with low throughput" >> ELSE << >>)
            \o (IF payload.in_flight_bottles > 6
                THEN << "Bottle accumulation indicates possible jam" >> ELSE << >>)
            \o (IF payload.output_alarm_horn
                THEN << "PLC alarm horn is active" >> ELSE << >>)
            \o (IF payload.output_reject_gate /\ payload.reject_rate > 8
                THEN << "Reject gate active with elevated rejects" >> ELSE << >>)
        packet_delta == Abs(net.packet_rate - EXPECTED_PACKET_RATE)
        packet_rate_component == packet_component(net.packet_rate)
        burst_component ==
            IF net.burst_ratio > 72 THEN (net.burst_ratio - 72) * 90 ELSE 0
        unauthorized_component ==
            IF net.unauthorized_attempts > 0
            THEN (35 + net.unauthorized_attempts * 10) * Scale ELSE 0
        security_component == IF net.security_flag THEN 42 * Scale ELSE 0
        network_components ==
            << << "Packet-rate deviation", packet_rate_component >> >>
            \o (IF net.burst_ratio > 72
                THEN << << "Burst traffic anomaly", burst_component >> >> ELSE << >>)
            \o (IF net.unauthorized_attempts > 0
                THEN << << "Unauthorized write attempts", unauthorized_component >> >>
                ELSE << >>)
            \o (IF net.security_flag
                THEN << << "Security flag lane", security_component >> >> ELSE << >>)
        network_reasons ==
            (IF packet_delta > 18
             THEN << "Network packet rate drift detected" >> ELSE << >>)
            \o (IF net.burst_ratio > 72
                THEN << "Burst traffic pattern suggests malformed polling" >> ELSE << >>)
            \o (IF net.unauthorized_attempts > 0
                THEN << "Unauthorized network write attempt detected" >> ELSE << >>)
            \o (IF net.security_flag
                THEN << "Security monitor flagged suspicious control-network activity" >>
                ELSE << >>)
        process_score == combine_process_score(rule_process_score, process_lane.score)
        network_score == clamp(packet_rate_component + burst_component
                               + unauthorized_component + security_component,
                               0, 100 * Scale)
        process_anomaly == process_score >= PROCESS_ANOMALY_THRESHOLD
        network_alert == is_network_alert(network_score, net.security_flag)
        max_risk == Max(process_score, network_score)
        reasons == rule_reasons \o process_lane.reasons \o network_reasons
    IN     [ process_score |-> process_score,
             network_score |-> network_score,
             process_anomaly |-> process_anomaly,
             network_alert |-> network_alert,
             model_confidence |-> clamp(100 * Scale - (max_risk * 7) \div 10,
                                        5 * Scale, 100 * Scale),
             reasons |-> IF reasons = << >> THEN << "System within baseline profile" >>
                         ELSE reasons,
             process_components |->
                 rule_components
                 \o << << process_lane.component_label, process_lane.score >> >>,
             network_components |-> network_components,
             risk_level |-> risk_level_of(max_risk),
             recommended_action |-> recommended_action_of(process_anomaly, network_alert),
             model_version |-> process_lane.model_version,
             vision_anomaly_score |-> process_lane.vision_anomaly_score,
             vision_defect_flag |-> process_lane.vision_defect_flag,
             vision_inference_ms |-> process_lane.vision_inference_ms,
             security_flag |-> net.security_flag,
             scan_time_ms |-> payload.scan_time_ms,
             process_source |-> process_lane.source,
             network_source |-> net.source ]

\* Mutant of analyze_payload: the drift model learns from every reading,
\* whichever lane supplied the process score
analyze_payload_always_learns(payload, vision, security, model, t) ==
    TheOne({ [ result |-> fuse(payload, resolved.lane, net),
               model |-> evaluate(model, payload).model ] :
             resolved \in { resolve_process_lane(payload, vision, model, t) },
             net \in { resolve_network_inputs(payload, security, t) } })

\* analyze_payload, for a reading, the two slots of the signal store, the
\* drift model and a clock reading.  Returns the AnalysisResult and the
\* drift model after the call.
analyze_payload(payload, vision, security, model, t) ==
    TheOne({ [ result |-> fuse(payload, resolved.lane, net), model |-> resolved.model ] :
             resolved \in { resolve_process_lane(payload, vision, model, t) },
             net \in { resolve_network_inputs(payload, security, t) } })

-----------------------------------------------------------------------------
(* Request bodies *)

\* A body model without Field constraints: every value is accepted
payload_accepted_unchecked(p) == TRUE

\* Field constraints of TelemetryPayload (ge / le of the pydantic model)
TelemetryPayloadValid(p) ==
    /\ p.network_burst_ratio >= 0
    /\ p.network_unauthorized_attempts >= 0
    /\ p.scan_time_ms >= 0
    /\ p.vision_anomaly_score # None =>
           (Get(p.vision_anomaly_score) >= 0 /\ Get(p.vision_anomaly_score) <= 100 * Scale)
    /\ p.vision_inference_ms >= 0

\* Field constraints of VisionSignalPayload
VisionSignalPayloadValid(p) ==
    /\ p.anomaly_score >= 0
    /\ p.anomaly_score <= 100 * Scale
    /\ p.inference_ms >= 0

\* Field constraints of SecuritySignalPayload
SecuritySignalPayloadValid(p) ==
    /\ p.packet_rate >= 0
    /\ p.burst_ratio >= 0
    /\ p.unauthorized_attempts >= 0
    /\ p.sample_window_seconds > 0

\* The nominal reading of the tests and of the scenario validator
BaseReading ==
    [ production_rate |-> 12, reject_rate |-> 1, conveyor_running |-> TRUE,
      in_flight_bottles |-> 3, output_alarm_horn |-> FALSE,
      output_reject_gate |-> FALSE, network_packet_rate |-> 130,
      network_burst_ratio |-> 20, network_unauthorized_attempts |-> 0,
      scan_time_ms |-> 100, vision_anomaly_score |-> None,
      vision_defect_flag |-> None, vision_model_version |-> None,
      vision_inference_ms |-> 0, security_flag |-> None ]

\* The readings the model submits
Readings ==
    { BaseReading,
      \* drifting telemetry with every process rule fired and an attack in the payload
      [ BaseReading EXCEPT !.production_rate = 2, !.reject_rate = 40,
                           !.in_flight_bottles = 9, !.output_alarm_horn = TRUE,
                           !.output_reject_gate = TRUE, !.network_packet_rate = 255,
                           !.network_burst_ratio = 95,
                           !.network_unauthorized_attempts = 2,
                           !.security_flag = Some(TRUE) ],
      \* the "defect" scenario: score and flag in the payload
      [ BaseReading EXCEPT !.vision_anomaly_score = Some(95 * Scale),
                           !.vision_defect_flag = Some(TRUE),
                           !.vision_model_version = Some("test-v1"),
                           !.vision_inference_ms = 7 ],
      \* a quiet payload lane: low score, flag false
      [ BaseReading EXCEPT !.vision_anomaly_score = Some(5 * Scale),
                           !.vision_defect_flag = Some(FALSE),
                           !.security_flag = Some(FALSE) ],
      \* only the score, only the flag
      [ BaseReading EXCEPT !.vision_anomaly_score = Some(60 * Scale) ],
      [ BaseReading EXCEPT !.vision_defect_flag = Some(TRUE) ],
      \* packet rate left at its default
      [ BaseReading EXCEPT !.network_packet_rate = 0, !.reject_rate = 14 ],
      \* out of range: rejected by validation
      [ BaseReading EXCEPT !.vision_anomaly_score = Some(150 * Scale) ] }

\* Bodies of POST /signals/vision, without the timestamp
VisionInputs ==
    { [ anomaly_score |-> 95 * Scale, defect_flag |-> TRUE,
        model_version |-> Some("camera-v3"), inference_ms |-> 12,
        source |-> "pytest-vision" ],
      [ anomaly_score |-> 20 * Scale, defect_flag |-> FALSE,
        model_version |-> None, inference_ms |-> 5,
        source |-> "camera-simulator" ] }

\* Bodies of POST /signals/security, without the timestamp
SecurityInputs ==
    { [ packet_rate |-> 255, burst_ratio |-> 95, unauthorized_attempts |-> 2,
        security_flag |-> TRUE, source |-> "pytest-security",
        sample_window_seconds |-> 1 ],
      [ packet_rate |-> 130, burst_ratio |-> 20, unauthorized_attempts |-> 0,
        security_flag |-> FALSE, source |-> "network-monitor",
        sample_window_seconds |-> 1 ] }

\* Timestamps a producer may send at time t: none, an unparseable string, the
\* current instant written with a UTC offset, and an instant StaleBack
\* seconds in the past written as a naive time.  With the clock advancing
\* in steps of TickStep the ages 0, 4, 8 and 1, 5, 9 occur.
StaleBack == 1

TzOffset == 3600

TimestampInputs(t) ==
    { None,
      Some([ iso |-> FALSE, local |-> 0, offset |-> None ]),
      Some([ iso |-> TRUE, local |-> t + TzOffset, offset |-> Some(TzOffset) ]),
      Some([ iso |-> TRUE, local |-> t - StaleBack, offset |-> None ]) }

-----------------------------------------------------------------------------
(* Worker threads of the signal store *)

NumThreads == 2

Threads == 1..NumThreads

Kinds == { "vision", "security" }

IdleThread == [ pc |-> "idle" ]

\* The session before the client has connected
NoSession ==
    [ pc |-> "none", since_id |-> 0, safe_limit |-> 1, cursor_id |-> 0,
      batch |-> << >>, emitted |-> << >>, error_frames |-> 0,
      last_frame |-> [ type |-> "none" ], polls |-> 0 ]

\* An empty table, no request in progress, no client connected
LedgerIdle ==
    /\ analysis_events_id_seq = 0
    /\ analysis_events = << >>
    /\ csv_rows = 0
    /\ request = [ t \in Threads |-> IdleThread ]
    /\ requests = 0
    /\ session = NoSession
    /\ disconnected = FALSE

\* The names of METRICS_COUNTERS
CounterNames ==
    { "analyses_total", "process_anomalies_total", "network_alerts_total",
      "vision_signals_ingested", "security_signals_ingested" }

\* The metrics lock free, no handler running, no call returned yet
MetricsIdle ==
    /\ METRICS_LOCK = None
    /\ handler = [ t \in Threads |-> IdleThread ]
    /\ returned = [ c \in CounterNames |-> 0 ]

\* Clients of /events/stream served by the one event loop
NumSessions == 2

Sessions == 1..NumSessions

\* A generator before its client has connected
NoLoopSession ==
    [ pc |-> "none", cursor_id |-> 0, safe_limit |-> 1, batch |-> << >>,
      emitted |-> << >>, last_frame |-> [ type |-> "none" ], disconnected |-> FALSE ]

\* No client connected, the event loop's thread free
LoopIdle ==
    /\ sessions = [ s \in Sessions |-> NoLoopSession ]
    /\ event_loop = None

-----------------------------------------------------------------------------
(* The engine: clock, signal ingestion, freshness probes, analyze_payload *)

MaxNow == 8

MaxIngests == 1

MaxAnalyses == 1

TickStep == 4

NoCall == [ op |-> "none" ]

EmptyModel ==
    [ production_rate_history |-> << >>,
      reject_rate_history |-> << >>,
      inflight_history |-> << >> ]

\* The drift model after k fallback evaluations of the nominal reading:
\* each window holds the reading's value, once per evaluation, up to the
\* window size.
WarmModel(k) ==
    LET n == Min(k, window_size)
    IN [ production_rate_history |-> [ i \in 1..n |-> BaseReading.production_rate ],
         reject_rate_history |-> [ i \in 1..n |-> BaseReading.reject_rate ],
         inflight_history |-> [ i \in 1..n |-> BaseReading.in_flight_bottles ] ]

\* A full window after one drifting reading followed a nominal run
DriftedModel ==
    evaluate(WarmModel(window_size - 1),
             [ BaseReading EXCEPT !.production_rate = 2, !.reject_rate = 40,
                                  !.in_flight_bottles = 9 ]).model

ZeroCounters ==
    [ analyses_total |-> 0, process_anomalies_total |-> 0,
      network_alerts_total |-> 0, vision_signals_ingested |-> 0,
      security_signals_ingested |-> 0 ]

\* After start-up, possibly after a run of nominal fallback evaluations:
\* none, one short of the cold-start limit, or a full window.
EngineInit ==
    /\ now = 0
    /\ LATEST_VISION_SIGNAL = None
    /\ LATEST_SECURITY_SIGNAL = None
    /\ FALLBACK_MODEL \in { WarmModel(0), WarmModel(MinSamples - 1), DriftedModel }
    /\ METRICS_COUNTERS = ZeroCounters
    /\ USE_FALLBACK_DRIFT_MODEL \in BOOLEAN
    /\ last = NoCall
    /\ analyses = 0

\* The clock advances
Tick ==
    /\ now + TickStep <= MaxNow
    /\ now' = now + TickStep
    /\ last' = NoCall
    /\ UNCHANGED << LATEST_VISION_SIGNAL, LATEST_SECURITY_SIGNAL, FALLBACK_MODEL,
                    METRICS_COUNTERS, USE_FALLBACK_DRIFT_MODEL, analyses >>
    /\ UNCHANGED << storeVars, ledgerVars, metricsVars, loopVars >>

\* POST /signals/vision
ingest_vision_signal ==
    /\ METRICS_COUNTERS.vision_signals_ingested < MaxIngests
    /\ \E body \in VisionInputs, ts \in TimestampInputs(now) :
          /\ VisionSignalPayloadValid(body)
          /\ LATEST_VISION_SIGNAL' =
                 Some([ captured_at |-> parse_iso_timestamp(ts, now),
                        anomaly_score |-> body.anomaly_score,
                        defect_flag |-> body.defect_flag,
                        model_version |-> or_default(body.model_version),
                        inference_ms |-> body.inference_ms,
                        source |-> body.source ])
    /\ METRICS_COUNTERS' =
           [ METRICS_COUNTERS EXCEPT !.vision_signals_ingested = @ + 1 ]
    /\ last' = NoCall
    /\ UNCHANGED << now, LATEST_SECURITY_SIGNAL, FALLBACK_MODEL,
                    USE_FALLBACK_DRIFT_MODEL, analyses >>
    /\ UNCHANGED << storeVars, ledgerVars, metricsVars, loopVars >>

\* POST /signals/security
ingest_security_signal ==
    /\ METRICS_COUNTERS.security_signals_ingested < MaxIngests
    /\ \E body \in SecurityInputs, ts \in TimestampInputs(now) :
          /\ SecuritySignalPayloadValid(body)
          /\ LATEST_SECURITY_SIGNAL' =
                 Some([ captured_at |-> parse_iso_timestamp(ts, now),
                        packet_rate |-> body.packet_rate,
                        burst_ratio |-> body.burst_ratio,
                        unauthorized_attempts |-> body.unauthorized_attempts,
                        security_flag |-> body.security_flag,
                        source |-> body.source,
                        sample_window_seconds |-> body.sample_window_seconds ])
    /\ METRICS_COUNTERS' =
           [ METRICS_COUNTERS EXCEPT !.security_signals_ingested = @ + 1 ]
    /\ last' = NoCall
    /\ UNCHANGED << now, LATEST_VISION_SIGNAL, FALLBACK_MODEL,
                    USE_FALLBACK_DRIFT_MODEL, analyses >>
    /\ UNCHANGED << storeVars, ledgerVars, metricsVars, loopVars >>

\* A call of _get_fresh_vision_signal / _get_fresh_security_signal
get_fresh ==
    /\ \E kind \in { "vision", "security" } :
          last' = [ op |-> "get_fresh", kind |-> kind,
                    returned |-> IF kind = "vision"
                                 THEN get_fresh_vision_signal(LATEST_VISION_SIGNAL, now)
                                 ELSE get_fresh_security_signal(LATEST_SECURITY_SIGNAL, now) ]
    /\ UNCHANGED << now, LATEST_VISION_SIGNAL, LATEST_SECURITY_SIGNAL, FALLBACK_MODEL,
                    METRICS_COUNTERS, USE_FALLBACK_DRIFT_MODEL, analyses >>
    /\ UNCHANGED << storeVars, ledgerVars, metricsVars, loopVars >>

\* A call of analyze_payload on a validated reading
analyze_call ==
    /\ analyses < MaxAnalyses
    /\ \E payload \in Readings :
          /\ TelemetryPayloadValid(payload)
          /\ LET out == analyze_payload(payload, LATEST_VISION_SIGNAL,
                                        LATEST_SECURITY_SIGNAL, FALLBACK_MODEL, now)
             IN /\ FALLBACK_MODEL' = out.model
                /\ last' = [ op |-> "analyze", payload |-> payload,
                             model |-> FALLBACK_MODEL, result |-> out.result ]
    /\ analyses' = analyses + 1
    /\ UNCHANGED << now, LATEST_VISION_SIGNAL, LATEST_SECURITY_SIGNAL, METRICS_COUNTERS,
                    USE_FALLBACK_DRIFT_MODEL >>
    /\ UNCHANGED << storeVars, ledgerVars, metricsVars, loopVars >>

\* reset_runtime_state_for_tests
reset_runtime_state_for_tests ==
    /\ LATEST_VISION_SIGNAL' = None
    /\ LATEST_SECURITY_SIGNAL' = None
    /\ METRICS_COUNTERS' = ZeroCounters
    /\ FALLBACK_MODEL' = EmptyModel
    /\ last' = NoCall
    /\ UNCHANGED << now, USE_FALLBACK_DRIFT_MODEL, analyses >>
    /\ UNCHANGED << storeVars, ledgerVars, metricsVars, loopVars >>

EngineNext ==
    \/ Tick
    \/ ingest_vision_signal
    \/ ingest_security_signal
    \/ get_fresh
    \/ analyze_call
    \/ reset_runtime_state_for_tests

\* No thread is inside a signal store call
StoreIdle ==
    /\ SIGNAL_LOCK = None
    /\ thread = [ t \in Threads |-> IdleThread ]
    /\ completed_put = [ kind \in Kinds |-> None ]

\* The engine with its calls running one at a time
Init ==
    /\ EngineInit
    /\ StoreIdle
    /\ LedgerIdle
    /\ MetricsIdle
    /\ LoopIdle

Spec == Init /\ [][EngineNext]_vars

-----------------------------------------------------------------------------
(* The signal store under concurrent callers.  Each thread runs one of      *)
(* _set_vision_signal / _set_security_signal, _get_latest_vision_signal /   *)
(* _get_latest_security_signal, or the signal section of                     *)
(* reset_runtime_state_for_tests, statement by statement: take SIGNAL_LOCK, *)
(* execute the body, leave the with-block.                                   *)

\* The signals a put may carry, as the ingestion handlers build them
PutSignals(kind) ==
    IF kind = "vision"
    THEN { [ captured_at |-> now, anomaly_score |-> body.anomaly_score,
             defect_flag |-> body.defect_flag,
             model_version |-> or_default(body.model_version),
             inference_ms |-> body.inference_ms, source |-> body.source ] :
           body \in VisionInputs }
    ELSE { [ captured_at |-> now, packet_rate |-> body.packet_rate,
             burst_ratio |-> body.burst_ratio,
             unauthorized_attempts |-> body.unauthorized_attempts,
             security_flag |-> body.security_flag, source |-> body.source,
             sample_window_seconds |-> body.sample_window_seconds ] :
           body \in SecurityInputs }

Slot(kind) == IF kind = "vision" THEN LATEST_VISION_SIGNAL ELSE LATEST_SECURITY_SIGNAL

\* Mutant of lock_available: the lock never blocks
lock_available_always == TRUE

\* threading.Lock.acquire succeeds only when no thread holds the lock
lock_available == SIGNAL_LOCK = None

StoreInit ==
    /\ now = 0
    /\ LATEST_VISION_SIGNAL = None
    /\ LATEST_SECURITY_SIGNAL = None
    /\ FALLBACK_MODEL = EmptyModel
    /\ METRICS_COUNTERS = ZeroCounters
    /\ USE_FALLBACK_DRIFT_MODEL = TRUE
    /\ last = NoCall
    /\ analyses = 0
    /\ StoreIdle
    /\ LedgerIdle
    /\ MetricsIdle
    /\ LoopIdle

storeFrame == << now, FALLBACK_MODEL, METRICS_COUNTERS, USE_FALLBACK_DRIFT_MODEL,
                 last, analyses, ledgerVars, metricsVars, loopVars >>

\* A thread enters _set_<kind>_signal(signal)
call_set_signal(t) ==
    /\ thread[t].pc = "idle"
    /\ \E kind \in Kinds : \E signal \in PutSignals(kind) :
          thread' = [ thread EXCEPT ![t] = [ pc |-> "acquire", op |-> "set",
                                             kind |-> kind, signal |-> signal ] ]
    /\ UNCHANGED << LATEST_VISION_SIGNAL, LATEST_SECURITY_SIGNAL, SIGNAL_LOCK,
                    completed_put, storeFrame >>

\* A thread enters _get_latest_<kind>_signal()
call_get_latest_signal(t) ==
    /\ thread[t].pc = "idle"
    /\ \E kind \in Kinds :
          thread' = [ thread EXCEPT ![t] = [ pc |-> "acquire", op |-> "get",
                                             kind |-> kind ] ]
    /\ UNCHANGED << LATEST_VISION_SIGNAL, LATEST_SECURITY_SIGNAL, SIGNAL_LOCK,
                    completed_put, storeFrame >>

\* A thread enters reset_runtime_state_for_tests.  The counters and the drift
\* windows, which it clears after the with-block, hold their initial values
\* throughout this specification.
call_reset(t) ==
    /\ thread[t].pc = "idle"
    /\ thread' = [ thread EXCEPT ![t] = [ pc |-> "acquire", op |-> "reset" ] ]
    /\ UNCHANGED << LATEST_VISION_SIGNAL, LATEST_SECURITY_SIGNAL, SIGNAL_LOCK,
                    completed_put, storeFrame >>

\* with SIGNAL_LOCK: entry
acquire_signal_lock(t) ==
    /\ thread[t].pc = "acquire"
    /\ lock_available
    /\ SIGNAL_LOCK' = Some(t)
    /\ thread' = [ thread EXCEPT ![t].pc = "locked" ]
    /\ UNCHANGED << LATEST_VISION_SIGNAL, LATEST_SECURITY_SIGNAL, completed_put,
                    storeFrame >>

\* LATEST_<KIND>_SIGNAL = signal
set_signal_assign(t) ==
    /\ thread[t].pc = "locked"
    /\ thread[t].op = "set"
    /\ IF thread[t].kind = "vision"
       THEN /\ LATEST_VISION_SIGNAL' = Some(thread[t].signal)
            /\ UNCHANGED LATEST_SECURITY_SIGNAL
       ELSE /\ LATEST_SECURITY_SIGNAL' = Some(thread[t].signal)
            /\ UNCHANGED LATEST_VISION_SIGNAL
    /\ thread' = [ thread EXCEPT ![t].pc = "release" ]
    /\ UNCHANGED << SIGNAL_LOCK, completed_put, storeFrame >>

\* return LATEST_<KIND>_SIGNAL: the value is read inside the with-block.
\* seen records the latest completed put of the kind at this instant.
get_latest_read(t) ==
    /\ thread[t].pc = "locked"
    /\ thread[t].op = "get"
    /\ thread' = [ thread EXCEPT ![t] =
                       [ pc |-> "release", op |-> "get", kind |-> thread[t].kind,
                         ret |-> Slot(thread[t].kind),
                         seen |-> completed_put[thread[t].kind] ] ]
    /\ UNCHANGED << LATEST_VISION_SIGNAL, LATEST_SECURITY_SIGNAL, SIGNAL_LOCK,
                    completed_put, storeFrame >>

\* LATEST_VISION_SIGNAL = None; LATEST_SECURITY_SIGNAL = None
reset_clear_signals(t) ==
    /\ thread[t].pc = "locked"
    /\ thread[t].op = "reset"
    /\ LATEST_VISION_SIGNAL' = None
    /\ LATEST_SECURITY_SIGNAL' = None
    /\ thread' = [ thread EXCEPT ![t].pc = "release" ]
    /\ UNCHANGED << SIGNAL_LOCK, completed_put, storeFrame >>

\* with SIGNAL_LOCK: exit.  A put or a reset is complete here; a get keeps
\* its return value until the caller has taken it.
release_signal_lock(t) ==
    /\ thread[t].pc = "release"
    /\ SIGNAL_LOCK' = None
    /\ completed_put' =
           IF thread[t].op = "set"
           THEN [ completed_put EXCEPT ![thread[t].kind] = Some(thread[t].signal) ]
           ELSE IF thread[t].op = "reset"
           THEN [ kind \in Kinds |-> None ]
           ELSE completed_put
    /\ thread' = [ thread EXCEPT ![t] =
                       IF thread[t].op = "get"
                       THEN [ thread[t] EXCEPT !.pc = "returned" ]
                       ELSE IdleThread ]
    /\ UNCHANGED << LATEST_VISION_SIGNAL, LATEST_SECURITY_SIGNAL, storeFrame >>

\* The caller of a get has its value
get_latest_return(t) ==
    /\ thread[t].pc = "returned"
    /\ thread' = [ thread EXCEPT ![t] = IdleThread ]
    /\ UNCHANGED << LATEST_VISION_SIGNAL, LATEST_SECURITY_SIGNAL, SIGNAL_LOCK,
                    completed_put, storeFrame >>

StoreNext ==
    \E t \in Threads :
        \/ call_set_signal(t)
        \/ call_get_latest_signal(t)
        \/ call_reset(t)
        \/ acquire_signal_lock(t)
        \/ set_signal_assign(t)
        \/ get_latest_read(t)
        \/ reset_clear_signals(t)
        \/ release_signal_lock(t)
        \/ get_latest_return(t)

StoreSpec == StoreInit /\ [][StoreNext]_vars

-----------------------------------------------------------------------------
(* The analysis_events ledger and POST /analyze.  The handler runs on a     *)
(* worker thread; two calls overlap at the statements that reach the        *)
(* database, the CSV file and the counters.                                  *)

MaxRequests == 3

\* The readings submitted to POST /analyze in the ledger runs
LedgerReadings ==
    { BaseReading,
      [ BaseReading EXCEPT !.vision_anomaly_score = Some(95 * Scale),
                           !.vision_defect_flag = Some(TRUE),
                           !.vision_model_version = Some("test-v1"),
                           !.vision_inference_ms = 7 ] }

\* Mutant of nextval: the sequence hands out its last value again
nextval_stuck(last_value) == last_value

\* The id BIGSERIAL draws for an inserted row: nextval of the sequence
nextval(last_value) == last_value + 1

\* datetime.isoformat of an aware UTC time
isoformat(t) == [ iso |-> TRUE, local |-> t, offset |-> Some(0) ]

\* round(value, 2).  Scores are held in hundredths and milliseconds in
\* whole units, so every modelled value is already at two decimals.
round2(value) == value

\* The row INSERT INTO analysis_events writes, with the id and created_at
\* the table's defaults supply
insert_row(id, created_at, payload, result) ==
    [ id |-> id,
      created_at |-> created_at,
      payload |-> payload,
      process_score |-> result.process_score,
      network_score |-> result.network_score,
      process_anomaly |-> result.process_anomaly,
      network_alert |-> result.network_alert,
      model_confidence |-> result.model_confidence,
      process_components |-> result.process_components,
      network_components |-> result.network_components,
      risk_level |-> result.risk_level,
      recommended_action |-> result.recommended_action,
      model_version |-> result.model_version,
      reasons |-> result.reasons,
      vision_anomaly_score |-> result.vision_anomaly_score,
      vision_defect_flag |-> result.vision_defect_flag,
      vision_inference_ms |-> result.vision_inference_ms,
      security_flag |-> result.security_flag,
      scan_time_ms |-> result.scan_time_ms,
      process_source |-> result.process_source,
      network_source |-> result.network_source ]

\* The dictionary the analyze handler returns
response_body(result) ==
    [ process_anomaly |-> result.process_anomaly,
      network_alert |-> result.network_alert,
      process_score |-> round2(result.process_score),
      network_score |-> round2(result.network_score),
      model_confidence |-> round2(result.model_confidence),
      process_components |-> result.process_components,
      network_components |-> result.network_components,
      risk_level |-> result.risk_level,
      recommended_action |-> result.recommended_action,
      model_version |-> result.model_version,
      vision_anomaly_score |-> round2(result.vision_anomaly_score),
      vision_defect_flag |-> result.vision_defect_flag,
      vision_inference_ms |-> round2(result.vision_inference_ms),
      security_flag |-> result.security_flag,
      scan_time_ms |-> round2(result.scan_time_ms),
      process_source |-> result.process_source,
      network_source |-> result.network_source,
      reasons |-> result.reasons ]

\* The largest id among the committed rows, 0 for an empty table
MaxCommittedId ==
    IF analysis_events = << >> THEN 0
    ELSE CHOOSE m \in { analysis_events[i].id : i \in DOMAIN analysis_events } :
             \A i \in DOMAIN analysis_events : analysis_events[i].id <= m

\* What an exception leaving the handler gives the caller: no body
Raised(req) ==
    [ pc |-> "finished", payload |-> req.payload, result |-> req.result,
      after |-> req.after, id |-> req.id, persisted |-> "failed",
      outcome |-> [ kind |-> "exception" ] ]

requestFrame == << now, LATEST_VISION_SIGNAL, LATEST_SECURITY_SIGNAL,
                   USE_FALLBACK_DRIFT_MODEL, last, analyses, storeVars,
                   session, disconnected, metricsVars, loopVars >>

\* analyze: result = analyze_payload(payload), on a thread that is free or
\* has finished its previous call.  after records the largest id committed
\* when persist_analysis is entered.
analyze_compute(t, readings, max_requests) ==
    /\ request[t].pc \in { "idle", "finished" }
    /\ requests < max_requests
    /\ \E payload \in readings :
          /\ TelemetryPayloadValid(payload)
          /\ LET out == analyze_payload(payload, LATEST_VISION_SIGNAL,
                                        LATEST_SECURITY_SIGNAL, FALLBACK_MODEL, now)
             IN /\ FALLBACK_MODEL' = out.model
                /\ request' = [ request EXCEPT ![t] =
                                    [ pc |-> "persist", payload |-> payload,
                                      result |-> out.result, after |-> MaxCommittedId,
                                      id |-> 0, persisted |-> "pending",
                                      outcome |-> [ kind |-> "none" ] ] ]
    /\ requests' = requests + 1
    /\ UNCHANGED << METRICS_COUNTERS, analysis_events_id_seq, analysis_events,
                    csv_rows, requestFrame >>

\* persist_analysis: get_connection() raises, the ledger is unreachable
persist_connect_raises(t) ==
    /\ request[t].pc = "persist"
    /\ request' = [ request EXCEPT ![t] = Raised(request[t]) ]
    /\ UNCHANGED << FALLBACK_MODEL, METRICS_COUNTERS, analysis_events_id_seq,
                    analysis_events, csv_rows, requests, requestFrame >>

\* persist_analysis: the INSERT draws the row's id from the sequence
persist_insert_nextval(t) ==
    /\ request[t].pc = "persist"
    /\ analysis_events_id_seq' = nextval(analysis_events_id_seq)
    /\ request' = [ request EXCEPT ![t].pc = "insert",
                                   ![t].id = analysis_events_id_seq' ]
    /\ UNCHANGED << FALLBACK_MODEL, METRICS_COUNTERS, analysis_events, csv_rows,
                    requests, requestFrame >>

\* persist_analysis: the INSERT commits (autocommit) and execute returns
persist_insert_commits(t) ==
    /\ request[t].pc = "insert"
    /\ analysis_events' =
           Append(analysis_events,
                  insert_row(request[t].id, now, request[t].payload, request[t].result))
    /\ request' = [ request EXCEPT ![t].pc = "csv", ![t].persisted = "stored" ]
    /\ UNCHANGED << FALLBACK_MODEL, METRICS_COUNTERS, analysis_events_id_seq,
                    csv_rows, requests, requestFrame >>

\* persist_analysis: the INSERT fails after its id was drawn; the sequence
\* does not go back
persist_insert_raises(t) ==
    /\ request[t].pc = "insert"
    /\ request' = [ request EXCEPT ![t] = Raised(request[t]) ]
    /\ UNCHANGED << FALLBACK_MODEL, METRICS_COUNTERS, analysis_events_id_seq,
                    analysis_events, csv_rows, requests, requestFrame >>

\* _append_csv_log: the row is written, or skipped when CSV logging is off
\* or pandas is missing, or the write raises and the exception leaves the
\* handler with the row already committed
append_csv_log(t) ==
    /\ request[t].pc = "csv"
    /\ \E written \in { "written", "skipped", "raised" } :
          /\ csv_rows' = IF written = "written" THEN csv_rows + 1 ELSE csv_rows
          /\ request' = [ request EXCEPT ![t] =
                              IF written = "raised"
                              THEN [ request[t] EXCEPT !.pc = "finished",
                                         !.outcome = [ kind |-> "exception" ] ]
                              ELSE [ request[t] EXCEPT !.pc = "metrics" ] ]
    /\ UNCHANGED << FALLBACK_MODEL, METRICS_COUNTERS, analysis_events_id_seq,
                    analysis_events, requests, requestFrame >>

\* analyze: the counters under METRICS_LOCK, then the return
analyze_return(t) ==
    /\ request[t].pc = "metrics"
    /\ METRICS_COUNTERS' =
           [ METRICS_COUNTERS EXCEPT
                 !.analyses_total = @ + 1,
                 !.process_anomalies_total =
                     IF request[t].result.process_anomaly THEN @ + 1 ELSE @,
                 !.network_alerts_total =
                     IF request[t].result.network_alert THEN @ + 1 ELSE @ ]
    /\ request' = [ request EXCEPT ![t].pc = "finished",
                        ![t].outcome = [ kind |-> "return",
                                         body |-> response_body(request[t].result) ] ]
    /\ UNCHANGED << FALLBACK_MODEL, analysis_events_id_seq, analysis_events,
                    csv_rows, requests, requestFrame >>

LedgerInit ==
    /\ now = 0
    /\ LATEST_VISION_SIGNAL = None
    /\ LATEST_SECURITY_SIGNAL = None
    /\ FALLBACK_MODEL = EmptyModel
    /\ METRICS_COUNTERS = ZeroCounters
    /\ USE_FALLBACK_DRIFT_MODEL = TRUE
    /\ last = NoCall
    /\ analyses = 0
    /\ StoreIdle
    /\ LedgerIdle
    /\ MetricsIdle
    /\ LoopIdle

\* The steps of POST /analyze after the result is computed
analyze_step(t) ==
    \/ persist_connect_raises(t)
    \/ persist_insert_nextval(t)
    \/ persist_insert_commits(t)
    \/ persist_insert_raises(t)
    \/ append_csv_log(t)
    \/ analyze_return(t)

LedgerNext == \E t \in Threads :
    \/ analyze_compute(t, LedgerReadings, MaxRequests)
    \/ analyze_step(t)

\* The ledger under overlapping POST /analyze calls
LedgerSpec == LedgerInit /\ [][LedgerNext]_vars

-----------------------------------------------------------------------------
(* GET /events/stream: the generator of one client, from yield to yield *)

MaxPolls == 3

\* Number of POST /analyze calls made while the client is connected
MaxFeedRequests == 2

\* The query parameters the client opens the stream with
SinceIdInputs == { -1, 0, 1 }

LimitInputs == { 0, 2 }

\* _parse_event_row: the selected columns of a row as a dictionary; the
\* payload column is not selected
parse_event_row(row) ==
    [ id |-> row.id,
      created_at |-> isoformat(row.created_at),
      process_score |-> row.process_score,
      network_score |-> row.network_score,
      process_anomaly |-> row.process_anomaly,
      network_alert |-> row.network_alert,
      model_confidence |-> row.model_confidence,
      process_components |-> row.process_components,
      network_components |-> row.network_components,
      risk_level |-> row.risk_level,
      recommended_action |-> row.recommended_action,
      model_version |-> row.model_version,
      reasons |-> row.reasons,
      vision_anomaly_score |-> row.vision_anomaly_score,
      vision_defect_flag |-> row.vision_defect_flag,
      vision_inference_ms |-> row.vision_inference_ms,
      security_flag |-> row.security_flag,
      scan_time_ms |-> row.scan_time_ms,
      process_source |-> row.process_source,
      network_source |-> row.network_source ]

\* The rows at the given positions in the order the table holds them: a
\* SELECT that leaves out ORDER BY
order_by_commit(rows, positions, ascending) ==
    SubSeq([ k \in 1..Cardinality(positions) |->
                 rows[CHOOSE i \in positions :
                          Cardinality({ j \in positions : j <= i }) = k] ],
           1, Cardinality(positions))

\* ORDER BY id ASC / DESC over the rows at the given positions.  A row's
\* place is the number of rows that sort at or before it; id is the primary
\* key, and rows of equal id would keep their table order.
order_by_id(rows, positions, ascending) ==
    TheOne({ SubSeq([ k \in 1..Cardinality(positions) |->
                          rows[CHOOSE i \in positions : place[i] = k] ],
                    1, Cardinality(positions)) :
             place \in { [ i \in positions |->
                             Cardinality({ j \in positions :
                                 \/ IF ascending THEN rows[j].id < rows[i].id
                                                 ELSE rows[j].id > rows[i].id
                                 \/ rows[j].id = rows[i].id /\ j <= i }) ] @@ << >> } })

\* max(1, limit): the clamp without its upper bound
safe_limit_uncapped(limit) == Max(1, limit)

\* safe_limit = max(1, min(limit, 200))
safe_limit(limit) == Max(1, Min(limit, 200))

\* Mutant of fetch_events: WHERE id >= after_id
fetch_events_inclusive(rows, limit, ascending, after_id) ==
    TheOne({ [ i \in 1..Min(Len(ordered), safe_limit(limit)) |->
                 parse_event_row(ordered[i]) ] :
             ordered \in { order_by_id(rows,
                                       { i \in DOMAIN rows :
                                           \/ after_id = None
                                           \/ rows[i].id >= Max(Get(after_id), 0) },
                                       ascending) } })

\* _fetch_events over the committed rows: WHERE id > max(after_id, 0) when
\* after_id is given, ORDER BY id, LIMIT max(1, min(limit, 200))
fetch_events(rows, limit, ascending, after_id) ==
    TheOne({ [ i \in 1..Min(Len(ordered), safe_limit(limit)) |->
                 parse_event_row(ordered[i]) ] :
             ordered \in { order_by_id(rows,
                                       { i \in DOMAIN rows :
                                           \/ after_id = None
                                           \/ rows[i].id > Max(Get(after_id), 0) },
                                       ascending) } })

\* The text of a frame is a sequence of pieces: runs of ordinary characters,
\* and the characters that matter to a client that splits the stream into
\* frames, each as a piece of its own
LineFeed == "<LF>"

Backslash == "<\\>"

\* json.dumps of an event: one line, no line feed inside
json_dumps_event(id) == "{\"id\": " \o ToString(id) \o ", ...}"

\* "retry: 1500\n\n": the escapes are line feeds
retry_frame == << "retry: 1500", LineFeed, LineFeed >>

\* f"event: error\\ndata: {error_payload}\\n\\n": each \\ is a backslash,
\* followed by the letter n
error_frame(error_payload) ==
    << "event: error", Backslash, "n", "data: ", error_payload,
       Backslash, "n", Backslash, "n" >>

\* f"data: {json.dumps(event)}\\n\\n"
data_frame(id) ==
    << "data: ", json_dumps_event(id), Backslash, "n", Backslash, "n" >>

\* ": keepalive\\n\\n"
keepalive_frame == << ": keepalive", Backslash, "n", Backslash, "n" >>

\* The string the generator yields for a frame
yielded_text(frame) ==
    CASE frame.type = "retry" -> retry_frame
      [] frame.type = "error" -> error_frame("{\"error\": \"...\"}")
      [] frame.type = "data" -> data_frame(frame.id)
      [] frame.type = "keepalive" -> keepalive_frame
      [] OTHER -> << >>

\* Mutant of on_fetch_error: the exception leaves the generator
on_fetch_error_raise(s) == [ s EXCEPT !.pc = "closed", !.polls = @ + 1 ]

\* except Exception: yield the error frame, sleep, continue
on_fetch_error(s) ==
    [ s EXCEPT !.pc = "sleep", !.polls = @ + 1, !.error_frames = @ + 1,
               !.last_frame = [ type |-> "error" ] ]

sessionFrame == << engineVars, storeVars, analysis_events_id_seq, analysis_events,
                   csv_rows, request, requests, metricsVars, loopVars >>

\* events_stream: the parameters are clamped and the generator yields the
\* retry frame
events_stream ==
    /\ session.pc = "none"
    /\ \E since_id \in SinceIdInputs, limit \in LimitInputs :
          session' = [ NoSession EXCEPT !.pc = "check",
                                        !.since_id = since_id,
                                        !.cursor_id = Max(since_id, 0),
                                        !.safe_limit = safe_limit(limit),
                                        !.last_frame = [ type |-> "retry" ] ]
    /\ UNCHANGED << disconnected, sessionFrame >>

\* The client goes away
client_disconnects ==
    /\ session.pc \notin { "none", "closed" }
    /\ ~disconnected
    /\ disconnected' = TRUE
    /\ UNCHANGED << session, sessionFrame >>

\* Mutant of check_disconnected: the loop goes on whatever the client did
check_disconnected_never_breaks ==
    /\ session.pc = "check"
    /\ session' = [ session EXCEPT !.pc = "fetch" ]
    /\ UNCHANGED << disconnected, sessionFrame >>

\* if await request.is_disconnected(): break
check_disconnected ==
    /\ session.pc = "check"
    /\ session' = [ session EXCEPT !.pc = IF disconnected THEN "closed" ELSE "fetch" ]
    /\ UNCHANGED << disconnected, sessionFrame >>

\* The poll's query succeeds: the first data frame of the batch is next, or
\* the keepalive frame is yielded
poll_fetch_events ==
    /\ session.pc = "fetch"
    /\ session.polls < MaxPolls
    /\ LET events_payload == fetch_events(analysis_events, session.safe_limit, TRUE,
                                          Some(session.cursor_id))
       IN session' = IF events_payload # << >>
                     THEN [ session EXCEPT !.pc = "emit", !.polls = @ + 1,
                                           !.batch = events_payload ]
                     ELSE [ session EXCEPT !.pc = "sleep", !.polls = @ + 1,
                                           !.last_frame = [ type |-> "keepalive" ] ]
    /\ UNCHANGED << disconnected, sessionFrame >>

\* The poll's query raises
poll_fetch_raises ==
    /\ session.pc = "fetch"
    /\ session.polls < MaxPolls
    /\ session' = on_fetch_error(session)
    /\ UNCHANGED << disconnected, sessionFrame >>

\* for event in events_payload: advance the cursor, yield the data frame
emit_event ==
    /\ session.pc = "emit"
    /\ LET event == Head(session.batch)
           event_id == event.id
       IN session' = [ session EXCEPT
                           !.cursor_id = Max(@, event_id),
                           !.emitted = Append(@, event_id),
                           !.last_frame = [ type |-> "data", id |-> event_id ],
                           !.batch = Tail(@),
                           !.pc = IF Tail(session.batch) = << >> THEN "sleep" ELSE "emit" ]
    /\ UNCHANGED << disconnected, sessionFrame >>

\* await asyncio.sleep(poll_interval) returns
sleep_returns ==
    /\ session.pc = "sleep"
    /\ session' = [ session EXCEPT !.pc = "check" ]
    /\ UNCHANGED << disconnected, sessionFrame >>

FeedNext ==
    \/ \E t \in Threads :
           \/ analyze_compute(t, { BaseReading }, MaxFeedRequests)
           \/ analyze_step(t)
    \/ events_stream
    \/ client_disconnects
    \/ check_disconnected
    \/ poll_fetch_events
    \/ poll_fetch_raises
    \/ emit_event
    \/ sleep_returns

\* One live-feed client while POST /analyze calls append to the ledger
FeedSpec == LedgerInit /\ [][FeedNext]_vars

-----------------------------------------------------------------------------
(* GET /events/stream as a loop that runs for as long as the client stays:
   the session of FeedSpec without the bound on its polls.  The counters
   polls and error_frames are bookkeeping of the bounded session and stay
   at 0 here.  The event loop resumes the generator after every await, and
   the query returns or raises. *)

\* The poll's query succeeds
live_fetch_events ==
    /\ session.pc = "fetch"
    /\ LET events_payload == fetch_events(analysis_events, session.safe_limit, TRUE,
                                          Some(session.cursor_id))
       IN session' = IF events_payload # << >>
                     THEN [ session EXCEPT !.pc = "emit", !.batch = events_payload ]
                     ELSE [ session EXCEPT !.pc = "sleep",
                                           !.last_frame = [ type |-> "keepalive" ] ]
    /\ UNCHANGED << disconnected, sessionFrame >>

\* The poll's query raises: error frame, sleep, continue
live_fetch_raises ==
    /\ session.pc = "fetch"
    /\ session' = [ on_fetch_error(session) EXCEPT !.polls = session.polls,
                                                   !.error_frames = session.error_frames ]
    /\ UNCHANGED << disconnected, sessionFrame >>

\* The poll's query ends, one way or the other
live_fetch == live_fetch_events \/ live_fetch_raises

StreamNext ==
    \/ \E t \in Threads :
           \/ analyze_compute(t, { BaseReading }, MaxFeedRequests)
           \/ analyze_step(t)
    \/ events_stream
    \/ client_disconnects
    \/ check_disconnected
    \/ live_fetch_events
    \/ live_fetch_raises
    \/ emit_event
    \/ sleep_returns

\* One live-feed client, polling without end, while POST /analyze calls
\* append to the ledger
StreamSpec ==
    /\ LedgerInit
    /\ [][StreamNext]_vars
    /\ WF_vars(check_disconnected)
    /\ WF_vars(live_fetch)
    /\ WF_vars(emit_event)
    /\ WF_vars(sleep_returns)

-----------------------------------------------------------------------------
(* analyze_payload applied to a grid of readings, with an empty signal store *)
(* and the fallback drift model switched off: the process lane is the        *)
(* payload's or none, the network inputs are the reading's.                  *)

\* The process fields across the edges of every rule
GridProcessFields ==
    { [ reject_rate |-> reject_rate, production_rate |-> rate[1],
        conveyor_running |-> rate[2], in_flight_bottles |-> in_flight,
        output_alarm_horn |-> horn, output_reject_gate |-> gate ] :
      reject_rate \in { 1, 9, 13, 31, 32, 33 },
      rate \in { << 12, TRUE >>, << 4, TRUE >>, << 3, TRUE >>, << 3, FALSE >> },
      in_flight \in { 6, 7 },
      horn \in BOOLEAN,
      gate \in BOOLEAN }

\* Vision scores in the payload across the thresholds and the risk bands
GridVisionScores ==
    { None, Some(0), Some(35 * Scale - 1), Some(35 * Scale), Some(60 * Scale - 1),
      Some(60 * Scale), Some(80 * Scale - 1), Some(80 * Scale), Some(100 * Scale) }

\* The network fields across the edges of every term; packet rate 125 with
\* burst ratio 1.27 sums to 55.00 exactly, with 1.26 to 54.10
GridNetworkFields ==
    { [ network_packet_rate |-> packet_rate, network_burst_ratio |-> burst_ratio,
        network_unauthorized_attempts |-> attempts, security_flag |-> flag ] :
      packet_rate \in { 130, 125, 112, 111, 99, 98, 0 },
      burst_ratio \in { 20, 72, 73, 95, 126, 127 },
      attempts \in { 0, 1, 2 },
      flag \in { None, Some(FALSE), Some(TRUE) } }

\* Three settings of the other half of the reading: quiet, raised, severe
GridNetworkSamples ==
    { [ network_packet_rate |-> 130, network_burst_ratio |-> 20,
        network_unauthorized_attempts |-> 0, security_flag |-> None ],
      [ network_packet_rate |-> 111, network_burst_ratio |-> 95,
        network_unauthorized_attempts |-> 0, security_flag |-> Some(FALSE) ],
      [ network_packet_rate |-> 255, network_burst_ratio |-> 95,
        network_unauthorized_attempts |-> 2, security_flag |-> Some(TRUE) ] }

GridProcessSamples ==
    { [ reject_rate |-> 1, production_rate |-> 12, conveyor_running |-> TRUE,
        in_flight_bottles |-> 3, output_alarm_horn |-> FALSE,
        output_reject_gate |-> FALSE ],
      [ reject_rate |-> 31, production_rate |-> 12, conveyor_running |-> TRUE,
        in_flight_bottles |-> 3, output_alarm_horn |-> FALSE,
        output_reject_gate |-> FALSE ],
      [ reject_rate |-> 40, production_rate |-> 2, conveyor_running |-> TRUE,
        in_flight_bottles |-> 9, output_alarm_horn |-> TRUE,
        output_reject_gate |-> TRUE ] }

\* A TelemetryPayload from its process fields, vision score and network fields
GridReading(process, vision_score, network) ==
    [ BaseReading EXCEPT
          !.reject_rate = process.reject_rate,
          !.production_rate = process.production_rate,
          !.conveyor_running = process.conveyor_running,
          !.in_flight_bottles = process.in_flight_bottles,
          !.output_alarm_horn = process.output_alarm_horn,
          !.output_reject_gate = process.output_reject_gate,
          !.vision_anomaly_score = vision_score,
          !.network_packet_rate = network.network_packet_rate,
          !.network_burst_ratio = network.network_burst_ratio,
          !.network_unauthorized_attempts = network.network_unauthorized_attempts,
          !.security_flag = network.security_flag ]

GridReadings ==
    { GridReading(process, vision_score, network) :
          process \in GridProcessFields, vision_score \in GridVisionScores,
          network \in GridNetworkSamples }
    \cup
    { GridReading(process, None, network) :
          process \in GridProcessSamples, network \in GridNetworkFields }

\* A reading has arrived at POST /analyze
GridInit ==
    /\ now = 0
    /\ LATEST_VISION_SIGNAL = None
    /\ LATEST_SECURITY_SIGNAL = None
    /\ FALLBACK_MODEL = EmptyModel
    /\ METRICS_COUNTERS = ZeroCounters
    /\ USE_FALLBACK_DRIFT_MODEL = FALSE
    /\ last \in { [ op |-> "reading", payload |-> payload ] : payload \in GridReadings }
    /\ analyses = 0
    /\ StoreIdle
    /\ LedgerIdle
    /\ MetricsIdle
    /\ LoopIdle

\* analyze_payload on the reading that has arrived
analyze_reading ==
    /\ last.op = "reading"
    /\ TelemetryPayloadValid(last.payload)
    /\ LET out == analyze_payload(last.payload, LATEST_VISION_SIGNAL,
                                  LATEST_SECURITY_SIGNAL, FALLBACK_MODEL, now)
       IN /\ FALLBACK_MODEL' = out.model
          /\ last' = [ op |-> "analyze", payload |-> last.payload,
                       model |-> FALLBACK_MODEL, result |-> out.result ]
    /\ analyses' = analyses + 1
    /\ UNCHANGED << now, LATEST_VISION_SIGNAL, LATEST_SECURITY_SIGNAL, METRICS_COUNTERS,
                    USE_FALLBACK_DRIFT_MODEL, storeVars, ledgerVars,
                    metricsVars, loopVars >>

GridNext == analyze_reading

\* analyze_payload over the grid of readings
GridSpec == GridInit /\ [][GridNext]_vars

-----------------------------------------------------------------------------
(* The fallback drift model on its own: evaluations and resets, from windows *)
(* of several lengths around the cold-start limit and the window size.       *)

MaxEvaluations == 3

\* A second nominal reading, so that a window can hold two different values
MildReading ==
    [ BaseReading EXCEPT !.production_rate = 14, !.reject_rate = 2,
                         !.in_flight_bottles = 4 ]

\* A reading far from both
DriftingReading ==
    [ BaseReading EXCEPT !.production_rate = 2, !.reject_rate = 40,
                         !.in_flight_bottles = 9 ]

DriftReadings == { BaseReading, MildReading, DriftingReading }

\* The drift model after k fallback evaluations that alternated between the
\* nominal and the mild reading
VariedModel(k) ==
    LET n == Min(k, window_size)
        reading(i) == IF i % 2 = 1 THEN BaseReading ELSE MildReading
    IN [ production_rate_history |-> [ i \in 1..n |-> reading(i).production_rate ],
         reject_rate_history |-> [ i \in 1..n |-> reading(i).reject_rate ],
         inflight_history |-> [ i \in 1..n |-> reading(i).in_flight_bottles ] ]

\* Numbers of evaluations since the last reset the runs start from
DriftStartLengths ==
    { 0, MinSamples - 3, MinSamples - 2, MinSamples - 1, MinSamples, window_size - 1 }

DriftInit ==
    /\ now = 0
    /\ LATEST_VISION_SIGNAL = None
    /\ LATEST_SECURITY_SIGNAL = None
    /\ FALLBACK_MODEL \in { WarmModel(k) : k \in DriftStartLengths }
                          \cup { VariedModel(k) : k \in DriftStartLengths }
    /\ METRICS_COUNTERS = ZeroCounters
    /\ USE_FALLBACK_DRIFT_MODEL = TRUE
    /\ last = NoCall
    /\ analyses = 0
    /\ StoreIdle
    /\ LedgerIdle
    /\ MetricsIdle
    /\ LoopIdle

\* FALLBACK_MODEL.evaluate(payload), as the fallback lane calls it
evaluate_call ==
    /\ analyses < MaxEvaluations
    /\ \E payload \in DriftReadings :
          LET out == evaluate(FALLBACK_MODEL, payload)
          IN /\ FALLBACK_MODEL' = out.model
             /\ last' = [ op |-> "evaluate", payload |-> payload, model |-> FALLBACK_MODEL,
                          score |-> out.score, reasons |-> out.reasons ]
    /\ analyses' = analyses + 1
    /\ UNCHANGED << now, LATEST_VISION_SIGNAL, LATEST_SECURITY_SIGNAL, METRICS_COUNTERS,
                    USE_FALLBACK_DRIFT_MODEL, storeVars, ledgerVars,
                    metricsVars, loopVars >>

DriftNext ==
    \/ evaluate_call
    \/ reset_runtime_state_for_tests

\* The drift model under evaluations and resets
DriftSpec == DriftInit /\ [][DriftNext]_vars

-----------------------------------------------------------------------------
(* The baseline scenario: the nominal reading of the scenario validator, with
   every field the scenario leaves open, against an empty signal store and
   drift windows of several lengths whose content is far from that reading *)

\* The drift model after k fallback evaluations of readings of a jammed line
FarModel(k) ==
    LET n == Min(k, window_size)
        reading(i) == IF i % 2 = 1 THEN DriftingReading
                      ELSE [ DriftingReading EXCEPT !.production_rate = 3,
                                                    !.reject_rate = 38,
                                                    !.in_flight_bottles = 10 ]
    IN [ production_rate_history |-> [ i \in 1..n |-> reading(i).production_rate ],
         reject_rate_history |-> [ i \in 1..n |-> reading(i).reject_rate ],
         inflight_history |-> [ i \in 1..n |-> reading(i).in_flight_bottles ] ]

\* Numbers of evaluations since the last reset: cold start, and its first
\* length past it
BaselineStartLengths == { 0, 1, MinSamples - 1, MinSamples }

\* _base_telemetry_payload with the fields the scenario does not fix, and
\* the same with an elevated reject rate
BaselineReadings ==
    { [ BaseReading EXCEPT !.reject_rate = reject_rate,
                           !.conveyor_running = conveyor_running,
                           !.output_alarm_horn = output_alarm_horn,
                           !.output_reject_gate = output_reject_gate,
                           !.scan_time_ms = scan_time_ms ] :
          reject_rate \in { 1, 31 },
          conveyor_running \in BOOLEAN,
          output_alarm_horn \in BOOLEAN,
          output_reject_gate \in BOOLEAN,
          scan_time_ms \in { 0, 100 } }

BaselineInit ==
    /\ now = 0
    /\ LATEST_VISION_SIGNAL = None
    /\ LATEST_SECURITY_SIGNAL = None
    /\ FALLBACK_MODEL \in { FarModel(k) : k \in BaselineStartLengths }
    /\ METRICS_COUNTERS = ZeroCounters
    /\ USE_FALLBACK_DRIFT_MODEL \in BOOLEAN
    /\ last \in { [ op |-> "reading", payload |-> payload ] : payload \in BaselineReadings }
    /\ analyses = 0
    /\ StoreIdle
    /\ LedgerIdle
    /\ MetricsIdle
    /\ LoopIdle

BaselineNext == analyze_reading

\* analyze_payload on the baseline scenario
BaselineSpec == BaselineInit /\ [][BaselineNext]_vars

-----------------------------------------------------------------------------
(* The signals the ingestion routes store *)

\* VisionSignalState built by ingest_vision_signal
vision_signal_state(body, captured_at) ==
    [ captured_at |-> captured_at,
      anomaly_score |-> body.anomaly_score,
      defect_flag |-> body.defect_flag,
      model_version |-> or_default(body.model_version),
      inference_ms |-> body.inference_ms,
      source |-> body.source ]

\* SecuritySignalState built by ingest_security_signal
security_signal_state(body, captured_at) ==
    [ captured_at |-> captured_at,
      packet_rate |-> body.packet_rate,
      burst_ratio |-> body.burst_ratio,
      unauthorized_attempts |-> body.unauthorized_attempts,
      security_flag |-> body.security_flag,
      source |-> body.source,
      sample_window_seconds |-> body.sample_window_seconds ]

-----------------------------------------------------------------------------
(* analyze_payload run twice from equal signal store, drift windows and clock
   reading, with the rest of the service's state different the second time *)

\* Signals of age 8 (fresh at the horizon) and 9 (stale) at the clock reading
ReplayCapturedAts == { 0, 1 }

ReplayVisionSignals ==
    { None } \cup { Some(vision_signal_state(body, captured_at)) :
                       body \in { CHOOSE v \in VisionInputs : v.defect_flag },
                       captured_at \in ReplayCapturedAts }

ReplaySecuritySignals ==
    { None } \cup { Some(security_signal_state(body, captured_at)) :
                       body \in { CHOOSE v \in SecurityInputs : v.security_flag },
                       captured_at \in ReplayCapturedAts }

ReplayReadings == LedgerReadings \cup { DriftingReading }

ReplayInit ==
    /\ now = VISION_SIGNAL_STALE_SECONDS + 1
    /\ LATEST_VISION_SIGNAL \in ReplayVisionSignals
    /\ LATEST_SECURITY_SIGNAL \in ReplaySecuritySignals
    /\ FALLBACK_MODEL \in { EmptyModel, WarmModel(MinSamples - 1), VariedModel(MinSamples) }
    /\ METRICS_COUNTERS = ZeroCounters
    /\ USE_FALLBACK_DRIFT_MODEL \in BOOLEAN
    /\ last \in { [ op |-> "reading", payload |-> payload ] : payload \in ReplayReadings }
    /\ analyses = 0
    /\ StoreIdle
    /\ LedgerIdle
    /\ MetricsIdle
    /\ LoopIdle

\* The second run is set up: the windows are as they were when the first call
\* started, the store and the clock are untouched, and the counters and the
\* ledger are either untouched or those of a service that has stored the
\* first analysis
start_replica ==
    /\ last.op = "analyze"
    /\ FALLBACK_MODEL' = last.model
    /\ \E stored \in BOOLEAN :
          /\ METRICS_COUNTERS' =
                 IF stored
                 THEN [ METRICS_COUNTERS EXCEPT
                          !.analyses_total = @ + 1,
                          !.process_anomalies_total =
                              IF last.result.process_anomaly THEN @ + 1 ELSE @,
                          !.network_alerts_total =
                              IF last.result.network_alert THEN @ + 1 ELSE @ ]
                 ELSE METRICS_COUNTERS
          /\ analysis_events' =
                 IF stored
                 THEN Append(analysis_events,
                             insert_row(nextval(analysis_events_id_seq), now,
                                        last.payload, last.result))
                 ELSE analysis_events
          /\ analysis_events_id_seq' =
                 IF stored THEN nextval(analysis_events_id_seq)
                 ELSE analysis_events_id_seq
          /\ csv_rows' = IF stored THEN csv_rows + 1 ELSE csv_rows
    /\ last' = [ op |-> "replica", payload |-> last.payload, model |-> last.model,
                 first |-> [ result |-> last.result, model |-> FALLBACK_MODEL ] ]
    /\ UNCHANGED << now, LATEST_VISION_SIGNAL, LATEST_SECURITY_SIGNAL,
                    USE_FALLBACK_DRIFT_MODEL, analyses, storeVars, request, requests,
                    session, disconnected, metricsVars, loopVars >>

\* analyze_payload on the same reading, the second time
analyze_replica ==
    /\ last.op = "replica"
    /\ LET out == analyze_payload(last.payload, LATEST_VISION_SIGNAL,
                                  LATEST_SECURITY_SIGNAL, FALLBACK_MODEL, now)
       IN /\ FALLBACK_MODEL' = out.model
          /\ last' = [ op |-> "replayed", payload |-> last.payload, model |-> last.model,
                       first |-> last.first,
                       second |-> [ result |-> out.result, model |-> out.model ] ]
    /\ analyses' = analyses + 1
    /\ UNCHANGED << now, LATEST_VISION_SIGNAL, LATEST_SECURITY_SIGNAL, METRICS_COUNTERS,
                    USE_FALLBACK_DRIFT_MODEL, storeVars, ledgerVars,
                    metricsVars, loopVars >>

ReplayNext ==
    \/ analyze_reading
    \/ start_replica
    \/ analyze_replica

\* Two analyses of one reading from equal store, windows and clock
ReplaySpec == ReplayInit /\ [][ReplayNext]_vars

-----------------------------------------------------------------------------
(* The OpenPLC bridge (src/backend/scripts/openplc_modbus_bridge.py): the
   state it derives from one GET /signals payload.  A JSON value is a record
   with its type and a field holding its value; a dict maps each key to None (key absent) or
   Some(value).  Numbers are in hundredths, ints in their natural unit. *)

JsonNull == [ type |-> "null" ]

JsonBool(b) == [ type |-> "bool", bool |-> b ]

JsonInt(n) == [ type |-> "int", int |-> n ]

JsonNumber(h) == [ type |-> "number", number |-> h ]

JsonStr(s) == [ type |-> "str", str |-> s ]

JsonDict(d) == [ type |-> "dict", dict |-> d ]

\* isinstance(value, dict)
is_dict(v) == v.type = "dict"

\* bool(value)
truthy(v) ==
    CASE v.type = "null" -> FALSE
      [] v.type = "bool" -> v.bool
      [] v.type = "int" -> v.int # 0
      [] v.type = "number" -> v.number # 0
      [] v.type = "str" -> v.str # ""
      [] v.type = "dict" -> \E k \in DOMAIN v.dict : v.dict[k] # None

\* value.get(key) on a dict
dict_get(v, key) ==
    IF key \in DOMAIN v.dict /\ v.dict[key] # None
    THEN Get(v.dict[key])
    ELSE JsonNull

\* _safe_float: float(value), the default on TypeError or ValueError
safe_float(v, default) ==
    CASE v.type = "number" -> v.number
      [] v.type = "int" -> v.int * Scale
      [] v.type = "bool" -> (IF v.bool THEN Scale ELSE 0)
      [] OTHER -> default

\* _safe_int: int(value), the default on TypeError or ValueError
safe_int(v, default) ==
    CASE v.type = "int" -> v.int
      [] v.type = "number" -> v.number \div Scale
      [] v.type = "bool" -> (IF v.bool THEN 1 ELSE 0)
      [] OTHER -> default

\* int(round(value)): Python rounds a tie to the even integer
int_round(value) ==
    LET q == value \div Scale
        r == value % Scale
    IN IF 2 * r < Scale THEN q
       ELSE IF 2 * r > Scale THEN q + 1
       ELSE IF q % 2 = 0 THEN q ELSE q + 1

\* the freshness test with the "fresh" key left out
signal_fresh_when_present(signal) == truthy(signal)

\* bool(signal and signal.get("fresh")), signal a dict or None
signal_fresh(signal) == truthy(signal) /\ truthy(dict_get(signal, "fresh"))

ClearedBridgeState ==
    [ process_flag |-> FALSE, security_flag |-> FALSE,
      process_score |-> 0, security_score |-> 0,
      vision_fresh |-> FALSE, security_fresh |-> FALSE,
      vision_age_seconds |-> None, security_age_seconds |-> None ]

\* _derive_bridge_state(payload, process_threshold, burst_threshold)
derive_bridge_state(payload, process_threshold, burst_threshold) ==
    IF ~is_dict(payload) THEN ClearedBridgeState
    ELSE
    LET vision == IF is_dict(dict_get(payload, "vision"))
                  THEN dict_get(payload, "vision") ELSE JsonNull
        security == IF is_dict(dict_get(payload, "security"))
                    THEN dict_get(payload, "security") ELSE JsonNull
        vision_fresh == signal_fresh(vision)
        security_fresh == signal_fresh(security)
        anomaly_score == clamp(safe_float(dict_get(vision, "anomaly_score"), 0),
                               0, 100 * Scale)
        defect_flag == truthy(dict_get(vision, "defect_flag"))
        burst_ratio == safe_float(dict_get(security, "burst_ratio"), 0)
        unauthorized_attempts == safe_int(dict_get(security, "unauthorized_attempts"), 0)
        flagged == truthy(dict_get(security, "security_flag"))
        burst_component == Max((burst_ratio - burst_threshold) * 120, 0)
        unauthorized_component == Min(60 * Scale, unauthorized_attempts * 20 * Scale)
        base_component == IF flagged THEN 100 * Scale ELSE 0
        vision_used == vision_fresh /\ truthy(vision)
        security_used == security_fresh /\ truthy(security)
    IN [ process_flag |->
             vision_used /\ (defect_flag \/ anomaly_score >= process_threshold),
         security_flag |->
             security_used /\ (flagged \/ burst_ratio >= burst_threshold
                                       \/ unauthorized_attempts > 0),
         process_score |-> IF vision_used THEN int_round(anomaly_score) ELSE 0,
         security_score |->
             IF security_used
             THEN int_round(clamp(Max(base_component,
                                      burst_component + unauthorized_component),
                                  0, 100 * Scale))
             ELSE 0,
         vision_fresh |-> vision_fresh,
         security_fresh |-> security_fresh,
         vision_age_seconds |->
             IF vision_used
             THEN Some(safe_float(dict_get(vision, "age_seconds"), 0)) ELSE None,
         security_age_seconds |->
             IF security_used
             THEN Some(safe_float(dict_get(security, "age_seconds"), 0)) ELSE None ]

\* --process-threshold and --burst-threshold: the defaults, and zero
ProcessThresholds == { 60 * Scale, 0 }

BurstThresholds == { 72, 0 }

\* values of a signal's "fresh" key: absent, null, booleans, and values a
\* producer other than GET /signals could send
FreshValues ==
    { None, Some(JsonNull), Some(JsonBool(FALSE)), Some(JsonBool(TRUE)),
      Some(JsonInt(0)), Some(JsonInt(1)), Some(JsonStr("")), Some(JsonStr("false")) }

BridgeVisionSignals ==
    { JsonDict([ fresh |-> f, anomaly_score |-> s, defect_flag |-> d,
                 age_seconds |-> Some(JsonNumber(4 * Scale)) ]) :
        f \in FreshValues,
        s \in { None, Some(JsonNumber(5950)), Some(JsonNumber(9900)),
                Some(JsonStr("n/a")) },
        d \in { None, Some(JsonBool(FALSE)), Some(JsonBool(TRUE)) } }

BridgeSecuritySignals ==
    { JsonDict([ fresh |-> f, security_flag |-> g, burst_ratio |-> b,
                 unauthorized_attempts |-> a,
                 age_seconds |-> Some(JsonNumber(9 * Scale)) ]) :
        f \in FreshValues,
        g \in { Some(JsonBool(FALSE)), Some(JsonBool(TRUE)) },
        b \in { None, Some(JsonNumber(20)), Some(JsonNumber(99)) },
        a \in { Some(JsonInt(0)), Some(JsonInt(4)) } }

\* a dict with no key, and values that are no dict
EmptyVisionDict ==
    JsonDict([ fresh |-> None, anomaly_score |-> None, defect_flag |-> None,
               age_seconds |-> None ])

EmptySecurityDict ==
    JsonDict([ fresh |-> None, security_flag |-> None, burst_ratio |-> None,
               unauthorized_attempts |-> None, age_seconds |-> None ])

BridgePayloads ==
    { JsonNull, JsonStr("unavailable") }
    \cup { JsonDict([ vision |-> v, security |-> s ]) :
             v \in { None, Some(JsonNull), Some(JsonStr("stale")), Some(EmptyVisionDict) }
                   \cup { Some(x) : x \in BridgeVisionSignals },
             s \in { None, Some(JsonNull), Some(EmptySecurityDict) }
                   \cup { Some(x) : x \in BridgeSecuritySignals } }

BridgeInit ==
    /\ now = 0
    /\ LATEST_VISION_SIGNAL = None
    /\ LATEST_SECURITY_SIGNAL = None
    /\ FALLBACK_MODEL = EmptyModel
    /\ METRICS_COUNTERS = ZeroCounters
    /\ USE_FALLBACK_DRIFT_MODEL = TRUE
    /\ last \in { [ op |-> "signals", payload |-> payload,
                    process_threshold |-> pt, burst_threshold |-> bt ] :
                    payload \in BridgePayloads, pt \in ProcessThresholds,
                    bt \in BurstThresholds }
    /\ analyses = 0
    /\ StoreIdle
    /\ LedgerIdle
    /\ MetricsIdle
    /\ LoopIdle

\* one cycle of the bridge's loop after the fetch: the state is derived from
\* the payload
derive_bridge_state_call ==
    /\ last.op = "signals"
    /\ last' = [ op |-> "bridge", payload |-> last.payload,
                 process_threshold |-> last.process_threshold,
                 burst_threshold |-> last.burst_threshold,
                 state |-> derive_bridge_state(last.payload, last.process_threshold,
                                               last.burst_threshold) ]
    /\ UNCHANGED << now, LATEST_VISION_SIGNAL, LATEST_SECURITY_SIGNAL, FALLBACK_MODEL,
                    METRICS_COUNTERS, USE_FALLBACK_DRIFT_MODEL, analyses, storeVars,
                    ledgerVars, metricsVars, loopVars >>

BridgeNext == derive_bridge_state_call

\* _derive_bridge_state on /signals payloads
BridgeSpec == BridgeInit /\ [][BridgeNext]_vars

-----------------------------------------------------------------------------
(* FALLBACK_MODEL.evaluate under concurrent POST /analyze handlers.  The
   handler is a plain def, so the framework runs each call on a worker
   thread; evaluate takes no lock, and a thread switch can fall between any
   two of its statements.  Each statement that touches a window is one step. *)

MaxWindowCalls == 2

WindowReadings == { BaseReading, DriftingReading }

WindowInit ==
    /\ now = 0
    /\ LATEST_VISION_SIGNAL = None
    /\ LATEST_SECURITY_SIGNAL = None
    /\ FALLBACK_MODEL \in { VariedModel(MinSamples - 1), VariedModel(MinSamples) }
    /\ METRICS_COUNTERS = ZeroCounters
    /\ USE_FALLBACK_DRIFT_MODEL = TRUE
    /\ last = NoCall
    /\ analyses = 0
    /\ StoreIdle
    /\ LedgerIdle
    /\ MetricsIdle
    /\ LoopIdle

windowFrame == << now, LATEST_VISION_SIGNAL, LATEST_SECURITY_SIGNAL, METRICS_COUNTERS,
                  USE_FALLBACK_DRIFT_MODEL, storeVars, analysis_events_id_seq,
                  analysis_events, csv_rows, session, disconnected, metricsVars, loopVars >>

\* _resolve_process_lane reaches FALLBACK_MODEL.evaluate(payload): no vision
\* lane in the payload, no fresh external signal, the fallback switched on
evaluate_enter(t) ==
    /\ request[t].pc = "idle"
    /\ requests < MaxWindowCalls
    /\ USE_FALLBACK_DRIFT_MODEL
    /\ get_fresh_vision_signal(LATEST_VISION_SIGNAL, now) = None
    /\ \E payload \in WindowReadings :
          /\ ~payload_vision_present(payload)
          /\ request' = [ request EXCEPT ![t] = [ pc |-> "rate_z", payload |-> payload ] ]
    /\ requests' = requests + 1
    /\ UNCHANGED << FALLBACK_MODEL, last, analyses, windowFrame >>

\* rate_z = self._zscore(payload.production_rate, self.production_rate_history)
evaluate_rate_z(t) ==
    /\ request[t].pc = "rate_z"
    /\ request' = [ request EXCEPT ![t] =
                      [ pc |-> "reject_z", payload |-> request[t].payload,
                        rate_z |-> zscore(request[t].payload.production_rate,
                                          FALLBACK_MODEL.production_rate_history) ] ]
    /\ UNCHANGED << FALLBACK_MODEL, last, analyses, requests, windowFrame >>

\* reject_z = self._zscore(payload.reject_rate, self.reject_rate_history)
evaluate_reject_z(t) ==
    /\ request[t].pc = "reject_z"
    /\ request' = [ request EXCEPT ![t] =
                      [ pc |-> "inflight_z", payload |-> request[t].payload,
                        rate_z |-> request[t].rate_z,
                        reject_z |-> zscore(request[t].payload.reject_rate,
                                            FALLBACK_MODEL.reject_rate_history) ] ]
    /\ UNCHANGED << FALLBACK_MODEL, last, analyses, requests, windowFrame >>

\* inflight_z = self._zscore(float(payload.in_flight_bottles), self.inflight_history),
\* then the reasons and ml_score from the three local values
evaluate_inflight_z(t) ==
    /\ request[t].pc = "inflight_z"
    /\ LET rate_z == request[t].rate_z
           reject_z == request[t].reject_z
           inflight_z == zscore(request[t].payload.in_flight_bottles,
                                FALLBACK_MODEL.inflight_history)
       IN request' = [ request EXCEPT ![t] =
              [ pc |-> "append_rate", payload |-> request[t].payload,
                score |-> clamp(((rate_z * 35 + reject_z * 40 + inflight_z * 25) * 22)
                                    \div 100, 0, 100 * Scale),
                reasons |-> (IF rate_z > 260 THEN << RateReason >> ELSE << >>)
                            \o (IF reject_z > 240 THEN << RejectReason >> ELSE << >>)
                            \o (IF inflight_z > 280 THEN << InflightReason >> ELSE << >>) ] ]
    /\ UNCHANGED << FALLBACK_MODEL, last, analyses, requests, windowFrame >>

\* self.production_rate_history.append(payload.production_rate)
evaluate_append_rate(t) ==
    /\ request[t].pc = "append_rate"
    /\ FALLBACK_MODEL' =
           [ FALLBACK_MODEL EXCEPT !.production_rate_history =
                 deque_append(@, request[t].payload.production_rate) ]
    /\ request' = [ request EXCEPT ![t].pc = "append_reject" ]
    /\ UNCHANGED << last, analyses, requests, windowFrame >>

\* self.reject_rate_history.append(payload.reject_rate)
evaluate_append_reject(t) ==
    /\ request[t].pc = "append_reject"
    /\ FALLBACK_MODEL' =
           [ FALLBACK_MODEL EXCEPT !.reject_rate_history =
                 deque_append(@, request[t].payload.reject_rate) ]
    /\ request' = [ request EXCEPT ![t].pc = "append_inflight" ]
    /\ UNCHANGED << last, analyses, requests, windowFrame >>

\* self.inflight_history.append(float(payload.in_flight_bottles))
evaluate_append_inflight(t) ==
    /\ request[t].pc = "append_inflight"
    /\ FALLBACK_MODEL' =
           [ FALLBACK_MODEL EXCEPT !.inflight_history =
                 deque_append(@, request[t].payload.in_flight_bottles) ]
    /\ request' = [ request EXCEPT ![t].pc = "return" ]
    /\ UNCHANGED << last, analyses, requests, windowFrame >>

\* return ml_score, reasons
evaluate_return(t) ==
    /\ request[t].pc = "return"
    /\ last' = [ op |-> "evaluate", payload |-> request[t].payload,
                 model |-> FALLBACK_MODEL, score |-> request[t].score,
                 reasons |-> request[t].reasons ]
    /\ request' = [ request EXCEPT ![t] = IdleThread ]
    /\ analyses' = analyses + 1
    /\ UNCHANGED << FALLBACK_MODEL, requests, windowFrame >>

WindowNext ==
    \/ \E t \in Threads : evaluate_enter(t)
    \/ \E t \in Threads : evaluate_rate_z(t)
    \/ \E t \in Threads : evaluate_reject_z(t)
    \/ \E t \in Threads : evaluate_inflight_z(t)
    \/ \E t \in Threads : evaluate_append_rate(t)
    \/ \E t \in Threads : evaluate_append_reject(t)
    \/ \E t \in Threads : evaluate_append_inflight(t)
    \/ \E t \in Threads : evaluate_return(t)

\* Fallback evaluations on two worker threads
WindowSpec == WindowInit /\ [][WindowNext]_vars

-----------------------------------------------------------------------------
(* The metrics counters under concurrent handlers: POST /analyze,
   POST /signals/vision and POST /signals/security on worker threads, each
   "METRICS_COUNTERS[name] += 1" a load followed by a store *)

MaxMetricsAnalyses == 2
MaxSignalPosts == 1

\* The readings that arrive: a nominal one, and one that sets both flags
MetricsReadings ==
    { BaseReading,
      [ BaseReading EXCEPT !.production_rate = 2, !.reject_rate = 40,
                           !.in_flight_bottles = 9, !.output_alarm_horn = TRUE,
                           !.network_packet_rate = 255, !.network_burst_ratio = 95,
                           !.network_unauthorized_attempts = 2,
                           !.security_flag = Some(TRUE) ] }

\* The lock is taken whatever its state: a "with METRICS_LOCK" that does not exclude
metrics_lock_available_always == TRUE

\* METRICS_LOCK.acquire() succeeds only on a free lock
metrics_lock_available == METRICS_LOCK = None

\* The counters the locked block of POST /analyze increments, in its order
analyze_counters(result) ==
    << "analyses_total" >>
        \o (IF result.process_anomaly THEN << "process_anomalies_total" >> ELSE << >>)
        \o (IF result.network_alert THEN << "network_alerts_total" >> ELSE << >>)

\* Signal posts of one kind started so far: returned or still in their handler
posts_started(op, counter) ==
    returned[counter]
        + Cardinality({ t \in Threads : handler[t].pc # "idle" /\ handler[t].op = op })

MetricsInit ==
    /\ now = 0
    /\ LATEST_VISION_SIGNAL = None
    /\ LATEST_SECURITY_SIGNAL = None
    /\ FALLBACK_MODEL = EmptyModel
    /\ METRICS_COUNTERS = ZeroCounters
    /\ USE_FALLBACK_DRIFT_MODEL = TRUE
    /\ last = NoCall
    /\ analyses = 0
    /\ StoreIdle
    /\ LedgerIdle
    /\ MetricsIdle
    /\ LoopIdle

metricsFrame == << now, USE_FALLBACK_DRIFT_MODEL, last, storeVars, request,
                   session, disconnected, loopVars >>

\* POST /analyze up to the locked block: analyze_payload and persist_analysis.
\* When the INSERT or the CSV write raises, the exception leaves the handler
\* before the counters.
handle_analyze(t) ==
    /\ handler[t].pc = "idle"
    /\ requests < MaxMetricsAnalyses
    /\ \E payload \in MetricsReadings, persisted \in { "stored", "insert_raised", "csv_raised" } :
          /\ TelemetryPayloadValid(payload)
          /\ LET out == analyze_payload(payload, LATEST_VISION_SIGNAL,
                                        LATEST_SECURITY_SIGNAL, FALLBACK_MODEL, now)
                 id == nextval(analysis_events_id_seq)
             IN /\ FALLBACK_MODEL' = out.model
                /\ analysis_events_id_seq' = id
                /\ analysis_events' =
                       IF persisted = "insert_raised"
                       THEN analysis_events
                       ELSE Append(analysis_events, insert_row(id, now, payload, out.result))
                /\ csv_rows' = IF persisted = "stored" THEN csv_rows + 1 ELSE csv_rows
                /\ handler' =
                       [ handler EXCEPT ![t] =
                           IF persisted = "stored"
                           THEN [ pc |-> "acquire", op |-> "analyze", result |-> out.result ]
                           ELSE IdleThread ]
    /\ requests' = requests + 1
    /\ analyses' = analyses + 1
    /\ UNCHANGED << LATEST_VISION_SIGNAL, LATEST_SECURITY_SIGNAL, METRICS_COUNTERS,
                    METRICS_LOCK, returned, metricsFrame >>

\* POST /signals/vision up to the locked block: _set_vision_signal
handle_ingest_vision_signal(t) ==
    /\ handler[t].pc = "idle"
    /\ posts_started("vision", "vision_signals_ingested") < MaxSignalPosts
    /\ \E body \in VisionInputs :
          /\ VisionSignalPayloadValid(body)
          /\ LATEST_VISION_SIGNAL' =
                 Some(vision_signal_state(body, parse_iso_timestamp(None, now)))
    /\ handler' = [ handler EXCEPT ![t] = [ pc |-> "acquire", op |-> "vision" ] ]
    /\ UNCHANGED << LATEST_SECURITY_SIGNAL, FALLBACK_MODEL, METRICS_COUNTERS, analyses,
                    analysis_events_id_seq, analysis_events, csv_rows, requests,
                    METRICS_LOCK, returned, metricsFrame >>

\* POST /signals/security up to the locked block: _set_security_signal
handle_ingest_security_signal(t) ==
    /\ handler[t].pc = "idle"
    /\ posts_started("security", "security_signals_ingested") < MaxSignalPosts
    /\ \E body \in SecurityInputs :
          /\ SecuritySignalPayloadValid(body)
          /\ LATEST_SECURITY_SIGNAL' =
                 Some(security_signal_state(body, parse_iso_timestamp(None, now)))
    /\ handler' = [ handler EXCEPT ![t] = [ pc |-> "acquire", op |-> "security" ] ]
    /\ UNCHANGED << LATEST_VISION_SIGNAL, FALLBACK_MODEL, METRICS_COUNTERS, analyses,
                    analysis_events_id_seq, analysis_events, csv_rows, requests,
                    METRICS_LOCK, returned, metricsFrame >>

countersFrame == << LATEST_VISION_SIGNAL, LATEST_SECURITY_SIGNAL, FALLBACK_MODEL,
                    analyses, analysis_events_id_seq, analysis_events, csv_rows,
                    requests, metricsFrame >>

\* "with METRICS_LOCK:" entered
acquire_metrics_lock(t) ==
    /\ handler[t].pc = "acquire"
    /\ metrics_lock_available
    /\ METRICS_LOCK' = Some(t)
    /\ handler' =
           [ handler EXCEPT ![t] =
               [ pc |-> "load", op |-> handler[t].op,
                 result |-> IF handler[t].op = "analyze" THEN handler[t].result ELSE None,
                 todo |-> CASE handler[t].op = "analyze" -> analyze_counters(handler[t].result)
                            [] handler[t].op = "vision" -> << "vision_signals_ingested" >>
                            [] handler[t].op = "security" -> << "security_signals_ingested" >>,
                 loaded |-> 0 ] ]
    /\ UNCHANGED << METRICS_COUNTERS, returned, countersFrame >>

\* "+= 1", first half: the current value of the counter is read
load_counter(t) ==
    /\ handler[t].pc = "load"
    /\ handler' = [ handler EXCEPT ![t].pc = "store",
                                   ![t].loaded = METRICS_COUNTERS[Head(handler[t].todo)] ]
    /\ UNCHANGED << METRICS_COUNTERS, METRICS_LOCK, returned, countersFrame >>

\* "+= 1", second half: the value read plus one is written back
store_counter(t) ==
    /\ handler[t].pc = "store"
    /\ METRICS_COUNTERS' =
           [ METRICS_COUNTERS EXCEPT ![Head(handler[t].todo)] = handler[t].loaded + 1 ]
    /\ handler' = [ handler EXCEPT ![t].todo = Tail(handler[t].todo),
                                   ![t].pc = IF Tail(handler[t].todo) = << >>
                                             THEN "release" ELSE "load" ]
    /\ UNCHANGED << METRICS_LOCK, returned, countersFrame >>

\* the "with" block left
release_metrics_lock(t) ==
    /\ handler[t].pc = "release"
    /\ METRICS_LOCK' = IF METRICS_LOCK = Some(t) THEN None ELSE METRICS_LOCK
    /\ handler' = [ handler EXCEPT ![t].pc = "return" ]
    /\ UNCHANGED << METRICS_COUNTERS, returned, countersFrame >>

\* The handler returns its response: the call is complete
handler_return(t) ==
    /\ handler[t].pc = "return"
    /\ returned' =
           [ c \in CounterNames |->
               IF \/ c = "analyses_total" /\ handler[t].op = "analyze"
                  \/ c = "process_anomalies_total" /\ handler[t].op = "analyze"
                        /\ handler[t].result.process_anomaly
                  \/ c = "network_alerts_total" /\ handler[t].op = "analyze"
                        /\ handler[t].result.network_alert
                  \/ c = "vision_signals_ingested" /\ handler[t].op = "vision"
                  \/ c = "security_signals_ingested" /\ handler[t].op = "security"
               THEN returned[c] + 1
               ELSE returned[c] ]
    /\ handler' = [ handler EXCEPT ![t] = IdleThread ]
    /\ UNCHANGED << METRICS_COUNTERS, METRICS_LOCK, countersFrame >>

MetricsNext ==
    \E t \in Threads :
        \/ handle_analyze(t)
        \/ handle_ingest_vision_signal(t)
        \/ handle_ingest_security_signal(t)
        \/ acquire_metrics_lock(t)
        \/ load_counter(t)
        \/ store_counter(t)
        \/ release_metrics_lock(t)
        \/ handler_return(t)

\* Concurrent requests on the worker threads, counted under METRICS_LOCK
MetricsSpec == MetricsInit /\ [][MetricsNext]_vars

-----------------------------------------------------------------------------
(* Ledger queries: _fetch_events as GET /events and the live feed call it,
   over tables with gaps, rows committed out of id order, and more rows than
   the largest page *)

LargeTableRows == 250

NominalResult == analyze_payload(BaseReading, None, None, EmptyModel, 0).result

AttackReading ==
    [ BaseReading EXCEPT !.production_rate = 2, !.reject_rate = 40,
                         !.network_packet_rate = 255, !.network_burst_ratio = 95,
                         !.network_unauthorized_attempts = 2,
                         !.security_flag = Some(TRUE) ]

AttackResult == analyze_payload(AttackReading, None, None, EmptyModel, 0).result

\* The row a POST /analyze that drew this id has committed
LedgerRow(id) ==
    IF id % 2 = 0
    THEN insert_row(id, id, BaseReading, NominalResult)
    ELSE insert_row(id, id, AttackReading, AttackResult)

\* Tables the service can have built: empty, one row, a few rows with a gap
\* and a late commit, one row more than the page limit, and a long table whose
\* neighbours were committed in swapped order
QueryTables ==
    { << >>,
      << LedgerRow(1) >>,
      << LedgerRow(2), LedgerRow(1), LedgerRow(4) >>,
      [ i \in 1..201 |-> LedgerRow(i) ],
      [ i \in 1..LargeTableRows |-> LedgerRow(2 + (IF i % 2 = 1 THEN i + 1 ELSE i - 1)) ] }

QueryLimits == { -5, 0, 1, 2, 20, 200, 201, 1000 }

QuerySinceIds == { -1, 0, 2, 100, 300 }

QueryAfterIds == { None } \cup { Some(k) : k \in QuerySinceIds }

\* The requests that can arrive: GET /events?limit=N, GET
\* /events/stream?since_id=K&limit=N, and a direct call of _fetch_events
QueryRequests ==
    { [ op |-> "request", route |-> "events", limit |-> limit ] :
          limit \in QueryLimits }
    \cup { [ op |-> "request", route |-> "stream", limit |-> limit,
             since_id |-> since_id ] :
               limit \in QueryLimits, since_id \in QuerySinceIds }
    \cup { [ op |-> "request", route |-> "direct", limit |-> limit,
             ascending |-> ascending, after_id |-> after_id ] :
               limit \in QueryLimits, ascending \in BOOLEAN, after_id \in QueryAfterIds }

\* A table at rest and a request that has arrived
QueryInit ==
    /\ USE_FALLBACK_DRIFT_MODEL = FALSE
    /\ analysis_events \in QueryTables
    /\ now = 0
    /\ LATEST_VISION_SIGNAL = None
    /\ LATEST_SECURITY_SIGNAL = None
    /\ FALLBACK_MODEL = EmptyModel
    /\ METRICS_COUNTERS = ZeroCounters
    /\ last \in QueryRequests
    /\ analyses = 0
    /\ StoreIdle
    /\ analysis_events_id_seq = Len(analysis_events) + 3
    /\ csv_rows = Len(analysis_events)
    /\ request = [ t \in Threads |-> IdleThread ]
    /\ requests = Len(analysis_events)
    /\ session = NoSession
    /\ disconnected = FALSE
    /\ MetricsIdle
    /\ LoopIdle

queryFrame == << now, LATEST_VISION_SIGNAL, LATEST_SECURITY_SIGNAL, FALLBACK_MODEL,
                 METRICS_COUNTERS, USE_FALLBACK_DRIFT_MODEL, analyses, storeVars,
                 ledgerVars, metricsVars, loopVars >>

\* GET /events?limit=N
events ==
    /\ last.op = "request"
    /\ last.route = "events"
    /\ LET parsed_rows == fetch_events(analysis_events, last.limit, FALSE, None)
       IN last' = [ op |-> "query", route |-> "events", limit |-> last.limit,
                    ascending |-> FALSE, after_id |-> None,
                    events |-> parsed_rows, count |-> Len(parsed_rows) ]
    /\ UNCHANGED queryFrame

\* GET /events/stream?since_id=K&limit=N up to the end of its first poll
events_stream_first_poll ==
    /\ last.op = "request"
    /\ last.route = "stream"
    /\ LET cursor_id == Max(last.since_id, 0)
           events_payload == fetch_events(analysis_events, safe_limit(last.limit), TRUE,
                                          Some(cursor_id))
       IN last' = [ op |-> "query", route |-> "stream", limit |-> last.limit,
                    ascending |-> TRUE, after_id |-> Some(last.since_id),
                    events |-> events_payload, count |-> Len(events_payload) ]
    /\ UNCHANGED queryFrame

\* _fetch_events(limit, ascending=..., after_id=...) called directly
fetch_events_call ==
    /\ last.op = "request"
    /\ last.route = "direct"
    /\ LET fetched == fetch_events(analysis_events, last.limit, last.ascending,
                                   last.after_id)
       IN last' = [ op |-> "query", route |-> "direct", limit |-> last.limit,
                    ascending |-> last.ascending, after_id |-> last.after_id,
                    events |-> fetched, count |-> Len(fetched) ]
    /\ UNCHANGED queryFrame

QueryNext ==
    \/ events
    \/ events_stream_first_poll
    \/ fetch_events_call

\* One query against a table at rest
QuerySpec == QueryInit /\ [][QueryNext]_vars

-----------------------------------------------------------------------------
(* The service as its clients see it: every route with the validation of its
   body in front of the handler, the reset hook, GET /events and one
   live-feed client *)

MaxServiceAnalyses == 2

\* Bodies of POST /analyze: two that pass validation, three that do not
ServiceReadings ==
    { BaseReading,
      AttackReading,
      [ BaseReading EXCEPT !.vision_anomaly_score = Some(150 * Scale) ],
      [ BaseReading EXCEPT !.network_burst_ratio = -50 ],
      [ BaseReading EXCEPT !.network_unauthorized_attempts = -1 ] }

\* Bodies of POST /signals/vision: the valid ones and two out of range
ServiceVisionInputs ==
    LET b == CHOOSE v \in VisionInputs : v.defect_flag
    IN VisionInputs
       \cup { [ b EXCEPT !.anomaly_score = 100 * Scale + 1 ],
              [ b EXCEPT !.anomaly_score = -1 ] }

\* Bodies of POST /signals/security: the valid ones and three out of range
ServiceSecurityInputs ==
    LET b == CHOOSE v \in SecurityInputs : v.security_flag
    IN SecurityInputs
       \cup { [ b EXCEPT !.burst_ratio = -50 ],
              [ b EXCEPT !.unauthorized_attempts = -1 ],
              [ b EXCEPT !.sample_window_seconds = 0 ] }

\* An INSERT that overwrites the newest row: ON CONFLICT DO UPDATE on a reused key
insert_into_replacing(rows, row) ==
    IF rows = << >> THEN << row >> ELSE [ rows EXCEPT ![Len(rows)] = row ]

\* The table after INSERT INTO analysis_events of one row
insert_into(rows, row) == Append(rows, row)

\* The record of a request the service has answered
Answered(route, body, status) ==
    [ op |-> "request", route |-> route, body |-> body, status |-> status ]

ServiceInit ==
    /\ now = 0
    /\ LATEST_VISION_SIGNAL = None
    /\ LATEST_SECURITY_SIGNAL = None
    /\ FALLBACK_MODEL = EmptyModel
    /\ METRICS_COUNTERS = ZeroCounters
    /\ USE_FALLBACK_DRIFT_MODEL = TRUE
    /\ last = NoCall
    /\ analyses = 0
    /\ StoreIdle
    /\ LedgerIdle
    /\ MetricsIdle
    /\ LoopIdle

serviceFrame == << now, USE_FALLBACK_DRIFT_MODEL, storeVars, request, session,
                   disconnected, metricsVars, loopVars >>

\* POST /analyze: the body is validated against TelemetryPayload; a valid one
\* runs analyze_payload, persist_analysis (which may raise before or after the
\* row is committed) and the counters
post_analyze(readings, max_requests) ==
    /\ \E payload \in readings, persisted \in { "stored", "insert_raised", "csv_raised" } :
          IF TelemetryPayloadValid(payload)
          THEN /\ requests < max_requests
               /\ LET out == analyze_payload(payload, LATEST_VISION_SIGNAL,
                                             LATEST_SECURITY_SIGNAL, FALLBACK_MODEL, now)
                      id == nextval(analysis_events_id_seq)
                  IN /\ FALLBACK_MODEL' = out.model
                     /\ analysis_events_id_seq' = id
                     /\ analysis_events' =
                            IF persisted = "insert_raised"
                            THEN analysis_events
                            ELSE insert_into(analysis_events,
                                             insert_row(id, now, payload, out.result))
                     /\ csv_rows' = IF persisted = "stored" THEN csv_rows + 1 ELSE csv_rows
                     /\ METRICS_COUNTERS' =
                            IF persisted = "stored"
                            THEN [ METRICS_COUNTERS EXCEPT
                                     !.analyses_total = @ + 1,
                                     !.process_anomalies_total =
                                         IF out.result.process_anomaly THEN @ + 1 ELSE @,
                                     !.network_alerts_total =
                                         IF out.result.network_alert THEN @ + 1 ELSE @ ]
                            ELSE METRICS_COUNTERS
                     /\ last' = Answered("analyze", payload,
                                         IF persisted = "stored" THEN 200 ELSE 500)
               /\ requests' = requests + 1
               /\ analyses' = analyses + 1
          ELSE /\ persisted = "stored"
               /\ last' = Answered("analyze", payload, 422)
               /\ UNCHANGED << FALLBACK_MODEL, analysis_events_id_seq, analysis_events,
                               csv_rows, METRICS_COUNTERS, requests, analyses >>
    /\ UNCHANGED << LATEST_VISION_SIGNAL, LATEST_SECURITY_SIGNAL, serviceFrame >>

\* POST /signals/vision: the body is validated against VisionSignalPayload; a
\* valid one is stored and counted
post_signals_vision(bodies) ==
    /\ \E body \in bodies :
          IF VisionSignalPayloadValid(body)
          THEN /\ METRICS_COUNTERS.vision_signals_ingested < MaxIngests
               /\ LATEST_VISION_SIGNAL' =
                      Some(vision_signal_state(body, parse_iso_timestamp(None, now)))
               /\ METRICS_COUNTERS' =
                      [ METRICS_COUNTERS EXCEPT !.vision_signals_ingested = @ + 1 ]
               /\ last' = Answered("signals/vision", body, 200)
          ELSE /\ last' = Answered("signals/vision", body, 422)
               /\ UNCHANGED << LATEST_VISION_SIGNAL, METRICS_COUNTERS >>
    /\ UNCHANGED << LATEST_SECURITY_SIGNAL, FALLBACK_MODEL, analyses,
                    analysis_events_id_seq, analysis_events, csv_rows, requests,
                    serviceFrame >>

\* POST /signals/security: the body is validated against SecuritySignalPayload;
\* a valid one is stored and counted
post_signals_security(bodies) ==
    /\ \E body \in bodies :
          IF SecuritySignalPayloadValid(body)
          THEN /\ METRICS_COUNTERS.security_signals_ingested < MaxIngests
               /\ LATEST_SECURITY_SIGNAL' =
                      Some(security_signal_state(body, parse_iso_timestamp(None, now)))
               /\ METRICS_COUNTERS' =
                      [ METRICS_COUNTERS EXCEPT !.security_signals_ingested = @ + 1 ]
               /\ last' = Answered("signals/security", body, 200)
          ELSE /\ last' = Answered("signals/security", body, 422)
               /\ UNCHANGED << LATEST_SECURITY_SIGNAL, METRICS_COUNTERS >>
    /\ UNCHANGED << LATEST_VISION_SIGNAL, FALLBACK_MODEL, analyses,
                    analysis_events_id_seq, analysis_events, csv_rows, requests,
                    serviceFrame >>

\* GET /events?limit=N against the table as it stands
get_events ==
    /\ \E limit \in LimitInputs :
          LET parsed_rows == fetch_events(analysis_events, limit, FALSE, None)
          IN last' = [ op |-> "query", route |-> "events", limit |-> limit,
                       ascending |-> FALSE, after_id |-> None,
                       events |-> parsed_rows, count |-> Len(parsed_rows) ]
    /\ UNCHANGED << LATEST_VISION_SIGNAL, LATEST_SECURITY_SIGNAL, FALLBACK_MODEL,
                    METRICS_COUNTERS, analyses, analysis_events_id_seq,
                    analysis_events, csv_rows, requests, serviceFrame >>

ServiceNext ==
    \/ post_analyze(ServiceReadings, MaxServiceAnalyses)
    \/ post_signals_vision(ServiceVisionInputs)
    \/ post_signals_security(ServiceSecurityInputs)
    \/ reset_runtime_state_for_tests
    \/ get_events

\* Every route of the service, one request at a time, with bodies that pass
\* validation and bodies that do not
ServiceSpec == ServiceInit /\ [][ServiceNext]_vars

MaxArchiveAnalyses == 1

\* The service restarted over a table that holds one row: the table outlives
\* the process, the store, the windows and the counters start afresh
ArchiveInit ==
    /\ now = 0
    /\ LATEST_VISION_SIGNAL = None
    /\ LATEST_SECURITY_SIGNAL = None
    /\ FALLBACK_MODEL = EmptyModel
    /\ METRICS_COUNTERS = ZeroCounters
    /\ USE_FALLBACK_DRIFT_MODEL = TRUE
    /\ last = NoCall
    /\ analyses = 0
    /\ StoreIdle
    /\ analysis_events = << LedgerRow(1) >>
    /\ analysis_events_id_seq = 1
    /\ csv_rows = 1
    /\ request = [ t \in Threads |-> IdleThread ]
    /\ requests = 0
    /\ session = NoSession
    /\ disconnected = FALSE
    /\ MetricsIdle
    /\ LoopIdle

\* The bodies of the long-running service: one of each kind, all valid
ArchiveVisionInputs == { CHOOSE v \in VisionInputs : v.defect_flag }

ArchiveSecurityInputs == { CHOOSE v \in SecurityInputs : v.security_flag }

ArchiveNext ==
    \/ post_analyze({ BaseReading }, MaxArchiveAnalyses)
    \/ post_signals_vision(ArchiveVisionInputs)
    \/ post_signals_security(ArchiveSecurityInputs)
    \/ reset_runtime_state_for_tests
    \/ get_events
    \/ events_stream
    \/ client_disconnects
    \/ check_disconnected
    \/ poll_fetch_events
    \/ poll_fetch_raises
    \/ emit_event
    \/ sleep_returns

\* Every operation of the service beside one live-feed client
ArchiveSpec == ArchiveInit /\ [][ArchiveNext]_vars

-----------------------------------------------------------------------------
(* Every operation of the service around the drift windows: POST /analyze on
   each of the three process lanes, the two ingestion routes, GET /signals,
   GET /metrics, GET /events, one live-feed client and the reset.  The
   service has been running: the windows hold two samples of analyses whose
   ledger writes failed, the ledger one row. *)

MaxFrameAnalyses == 1

\* a reading on the fallback path and one with a vision lane of its own
FrameReadings ==
    { BaseReading,
      [ BaseReading EXCEPT !.vision_anomaly_score = Some(95 * Scale),
                           !.vision_defect_flag = Some(TRUE),
                           !.vision_model_version = Some("test-v1"),
                           !.vision_inference_ms = 7 ] }

FrameInit ==
    /\ now = 0
    /\ LATEST_VISION_SIGNAL = None
    /\ LATEST_SECURITY_SIGNAL = None
    /\ FALLBACK_MODEL = WarmModel(2)
    /\ METRICS_COUNTERS = ZeroCounters
    /\ USE_FALLBACK_DRIFT_MODEL = TRUE
    /\ last = NoCall
    /\ analyses = 0
    /\ StoreIdle
    /\ analysis_events = << LedgerRow(1) >>
    /\ analysis_events_id_seq = 1
    /\ csv_rows = 1
    /\ request = [ t \in Threads |-> IdleThread ]
    /\ requests = 0
    /\ session = NoSession
    /\ disconnected = FALSE
    /\ MetricsIdle
    /\ LoopIdle

readFrame == << now, LATEST_VISION_SIGNAL, LATEST_SECURITY_SIGNAL, FALLBACK_MODEL,
                METRICS_COUNTERS, USE_FALLBACK_DRIFT_MODEL, analyses, storeVars,
                ledgerVars, metricsVars, loopVars >>

\* GET /signals: the two slots with their age and freshness
get_signals ==
    /\ last' =
           [ op |-> "signals",
             vision |->
                 IF LATEST_VISION_SIGNAL = None THEN None
                 ELSE Some([ anomaly_score |-> Get(LATEST_VISION_SIGNAL).anomaly_score,
                             defect_flag |-> Get(LATEST_VISION_SIGNAL).defect_flag,
                             age_seconds |->
                                 signal_age_seconds(Get(LATEST_VISION_SIGNAL).captured_at, now),
                             fresh |->
                                 signal_age_seconds(Get(LATEST_VISION_SIGNAL).captured_at, now)
                                     <= VISION_SIGNAL_STALE_SECONDS ]),
             security |->
                 IF LATEST_SECURITY_SIGNAL = None THEN None
                 ELSE Some([ burst_ratio |-> Get(LATEST_SECURITY_SIGNAL).burst_ratio,
                             unauthorized_attempts |->
                                 Get(LATEST_SECURITY_SIGNAL).unauthorized_attempts,
                             security_flag |-> Get(LATEST_SECURITY_SIGNAL).security_flag,
                             age_seconds |->
                                 signal_age_seconds(Get(LATEST_SECURITY_SIGNAL).captured_at,
                                                    now),
                             fresh |->
                                 signal_age_seconds(Get(LATEST_SECURITY_SIGNAL).captured_at,
                                                    now)
                                     <= SECURITY_SIGNAL_STALE_SECONDS ]) ]
    /\ UNCHANGED readFrame

\* GET /metrics: a copy of the counters and the two freshness gauges
get_metrics ==
    /\ last' =
           [ op |-> "metrics",
             counters |-> METRICS_COUNTERS,
             vision_signal_fresh |->
                 IF /\ LATEST_VISION_SIGNAL # None
                    /\ signal_age_seconds(Get(LATEST_VISION_SIGNAL).captured_at, now)
                           <= VISION_SIGNAL_STALE_SECONDS
                 THEN 1 ELSE 0,
             security_signal_fresh |->
                 IF /\ LATEST_SECURITY_SIGNAL # None
                    /\ signal_age_seconds(Get(LATEST_SECURITY_SIGNAL).captured_at, now)
                           <= SECURITY_SIGNAL_STALE_SECONDS
                 THEN 1 ELSE 0 ]
    /\ UNCHANGED readFrame

FrameNext ==
    \/ post_analyze(FrameReadings, MaxFrameAnalyses)
    \/ post_signals_vision(ArchiveVisionInputs)
    \/ post_signals_security(ArchiveSecurityInputs)
    \/ reset_runtime_state_for_tests
    \/ get_signals
    \/ get_metrics
    \/ get_events
    \/ events_stream
    \/ client_disconnects
    \/ check_disconnected
    \/ poll_fetch_events
    \/ poll_fetch_raises
    \/ emit_event
    \/ sleep_returns

\* The routes and the reset around the drift windows
FrameSpec == FrameInit /\ [][FrameNext]_vars

-----------------------------------------------------------------------------
(* Several /events/stream clients on one event loop.  events_stream is an
   async def, so every generator runs on the event loop's thread and gives it
   up only at an await or a yield: the disconnect check, each frame, the
   sleep.  _fetch_events is a plain function called without await: from
   "query" until it returns or raises, the event loop's thread is inside
   that call.  POST /analyze is a plain def and runs on worker threads.  The
   ledger holds one row when the clients connect. *)

MaxLoopRequests == 1

loopFrame == << engineVars, storeVars, ledgerVars, metricsVars >>

\* A client connects: the parameters are clamped, the retry frame is yielded
open_session(s) ==
    /\ sessions[s].pc = "none"
    /\ event_loop = None
    /\ \E since_id \in SinceIdInputs, limit \in LimitInputs :
          sessions' = [ sessions EXCEPT ![s] =
                            [ NoLoopSession EXCEPT
                                  !.pc = "check",
                                  !.cursor_id = Max(since_id, 0),
                                  !.safe_limit = safe_limit(limit),
                                  !.last_frame = [ type |-> "retry" ] ] ]
    /\ UNCHANGED << event_loop, loopFrame >>

\* The client of a session goes away
session_client_disconnects(s) ==
    /\ sessions[s].pc \notin { "none", "closed" }
    /\ ~sessions[s].disconnected
    /\ sessions' = [ sessions EXCEPT ![s].disconnected = TRUE ]
    /\ UNCHANGED << event_loop, loopFrame >>

\* await request.is_disconnected() completes: break, or go on into
\* _fetch_events, which keeps the event loop's thread
resume_check(s) ==
    /\ sessions[s].pc = "check"
    /\ event_loop = None
    /\ IF sessions[s].disconnected
       THEN /\ sessions' = [ sessions EXCEPT ![s].pc = "closed" ]
            /\ UNCHANGED event_loop
       ELSE /\ sessions' = [ sessions EXCEPT ![s].pc = "query" ]
            /\ event_loop' = Some(s)
    /\ UNCHANGED loopFrame

\* _fetch_events returns; the generator runs on to its next yield, the first
\* data frame or the keepalive, and the event loop is free again
query_returns(s) ==
    /\ sessions[s].pc = "query"
    /\ event_loop = Some(s)
    /\ LET events_payload == fetch_events(analysis_events, sessions[s].safe_limit, TRUE,
                                          Some(sessions[s].cursor_id))
       IN sessions' = [ sessions EXCEPT ![s] =
              IF events_payload # << >>
              THEN [ @ EXCEPT
                       !.cursor_id = Max(@, Head(events_payload).id),
                       !.emitted = Append(@, Head(events_payload).id),
                       !.last_frame = [ type |-> "data", id |-> Head(events_payload).id ],
                       !.batch = Tail(events_payload),
                       !.pc = IF Tail(events_payload) = << >> THEN "sleep" ELSE "emit" ]
              ELSE [ @ EXCEPT !.pc = "sleep", !.last_frame = [ type |-> "keepalive" ] ] ]
    /\ event_loop' = None
    /\ UNCHANGED loopFrame

\* _fetch_events raises: the error frame is yielded
query_raises(s) ==
    /\ sessions[s].pc = "query"
    /\ event_loop = Some(s)
    /\ sessions' = [ sessions EXCEPT ![s].pc = "sleep",
                                     ![s].last_frame = [ type |-> "error" ] ]
    /\ event_loop' = None
    /\ UNCHANGED loopFrame

\* the generator is resumed after a data frame and yields the next one
yield_event(s) ==
    /\ sessions[s].pc = "emit"
    /\ event_loop = None
    /\ LET event_id == Head(sessions[s].batch).id
       IN sessions' = [ sessions EXCEPT ![s] =
              [ @ EXCEPT
                  !.cursor_id = Max(@, event_id),
                  !.emitted = Append(@, event_id),
                  !.last_frame = [ type |-> "data", id |-> event_id ],
                  !.batch = Tail(@),
                  !.pc = IF Tail(sessions[s].batch) = << >> THEN "sleep" ELSE "emit" ] ]
    /\ UNCHANGED << event_loop, loopFrame >>

\* await asyncio.sleep(poll_interval) completes
wake_from_sleep(s) ==
    /\ sessions[s].pc = "sleep"
    /\ event_loop = None
    /\ sessions' = [ sessions EXCEPT ![s].pc = "check" ]
    /\ UNCHANGED << event_loop, loopFrame >>

\* a step of a session's generator that its code is ready to take
session_step(s) ==
    \/ resume_check(s)
    \/ yield_event(s)
    \/ wake_from_sleep(s)

LoopNext ==
    \/ \E t \in Threads :
           \/ analyze_compute(t, { BaseReading }, MaxLoopRequests)
           \/ analyze_step(t)
    \/ \E s \in Sessions : open_session(s)
    \/ \E s \in Sessions : session_client_disconnects(s)
    \/ \E s \in Sessions : resume_check(s)
    \/ \E s \in Sessions : query_returns(s)
    \/ \E s \in Sessions : query_raises(s)
    \/ \E s \in Sessions : yield_event(s)
    \/ \E s \in Sessions : wake_from_sleep(s)

\* Two live-feed clients on one event loop
LoopSpec == ArchiveInit /\ [][LoopNext]_vars

-----------------------------------------------------------------------------
(* The ingestion routes against the clock: POST /signals/vision and
   POST /signals/security with the timestamps a producer may send, missing,
   unparseable, past and future, while the wall clock advances second by
   second past the staleness horizon *)

MaxClock == 12

FutureAhead == 3

\* Timestamps sent at time t: those of TimestampInputs, an unparseable
\* string, and an instant FutureAhead seconds ahead of the receiver's clock
\* written as a naive time and with a UTC offset
ClockTimestamps(t) ==
    TimestampInputs(t)
    \cup { Some([ iso |-> FALSE, local |-> t + FutureAhead, offset |-> None ]),
           Some([ iso |-> TRUE, local |-> t + FutureAhead, offset |-> None ]),
           Some([ iso |-> TRUE, local |-> t + FutureAhead + TzOffset,
                  offset |-> Some(TzOffset) ]) }

\* The answer of an ingestion route: the stored signal's timestamp and its
\* age at the time of the answer, with the timestamp the producer sent and
\* the time the request was received
Ingested(kind, timestamp, received, captured_at) ==
    [ op |-> "ingest", kind |-> kind, timestamp |-> timestamp,
      received |-> received, status |-> 200,
      body |-> [ ok |-> TRUE,
                 timestamp |-> isoformat(captured_at),
                 age_seconds |-> signal_age_seconds(captured_at, received) ] ]

ClockInit ==
    /\ now = 0
    /\ LATEST_VISION_SIGNAL = None
    /\ LATEST_SECURITY_SIGNAL = None
    /\ FALLBACK_MODEL = EmptyModel
    /\ METRICS_COUNTERS = ZeroCounters
    /\ USE_FALLBACK_DRIFT_MODEL = TRUE
    /\ last = NoCall
    /\ analyses = 0
    /\ StoreIdle
    /\ LedgerIdle
    /\ MetricsIdle
    /\ LoopIdle

clockFrame == << FALLBACK_MODEL, USE_FALLBACK_DRIFT_MODEL, analyses, storeVars,
                 ledgerVars, metricsVars, loopVars >>

\* _utc_now() returns a later time
clock_advances ==
    /\ now < MaxClock
    /\ now' = now + 1
    /\ UNCHANGED << LATEST_VISION_SIGNAL, LATEST_SECURITY_SIGNAL, METRICS_COUNTERS,
                    last, clockFrame >>

\* POST /signals/vision with a timestamp
ingest_vision_signal_at ==
    /\ METRICS_COUNTERS.vision_signals_ingested < MaxIngests
    /\ \E body \in VisionInputs, timestamp \in ClockTimestamps(now) :
          /\ VisionSignalPayloadValid(body)
          /\ LET captured_at == parse_iso_timestamp(timestamp, now)
             IN /\ LATEST_VISION_SIGNAL' = Some(vision_signal_state(body, captured_at))
                /\ last' = Ingested("vision", timestamp, now, captured_at)
    /\ METRICS_COUNTERS' =
           [ METRICS_COUNTERS EXCEPT !.vision_signals_ingested = @ + 1 ]
    /\ UNCHANGED << now, LATEST_SECURITY_SIGNAL, clockFrame >>

\* POST /signals/security with a timestamp
ingest_security_signal_at ==
    /\ METRICS_COUNTERS.security_signals_ingested < MaxIngests
    /\ \E body \in SecurityInputs, timestamp \in ClockTimestamps(now) :
          /\ SecuritySignalPayloadValid(body)
          /\ LET captured_at == parse_iso_timestamp(timestamp, now)
             IN /\ LATEST_SECURITY_SIGNAL' =
                       Some(security_signal_state(body, captured_at))
                /\ last' = Ingested("security", timestamp, now, captured_at)
    /\ METRICS_COUNTERS' =
           [ METRICS_COUNTERS EXCEPT !.security_signals_ingested = @ + 1 ]
    /\ UNCHANGED << now, LATEST_VISION_SIGNAL, clockFrame >>

ClockNext ==
    \/ clock_advances
    \/ ingest_vision_signal_at
    \/ ingest_security_signal_at

\* The two ingestion routes and the clock
ClockSpec == ClockInit /\ [][ClockNext]_vars

-----------------------------------------------------------------------------

(* Properties of signal ingestion against the clock, checked under ClockSpec *)

\* the latest call is an ingestion
JustIngested == last.op = "ingest"

\* the slot the latest ingestion wrote
IngestedSlot ==
    IF last.kind = "vision" THEN LATEST_VISION_SIGNAL ELSE LATEST_SECURITY_SIGNAL

\* the slot the latest ingestion wrote, when its signal is fresh now
IngestedSlotFresh ==
    IF last.kind = "vision"
    THEN get_fresh_vision_signal(LATEST_VISION_SIGNAL, now)
    ELSE get_fresh_security_signal(LATEST_SECURITY_SIGNAL, now)

\* the staleness horizon of the slot the latest ingestion wrote
IngestedHorizon ==
    IF last.kind = "vision" THEN VISION_SIGNAL_STALE_SECONDS
    ELSE SECURITY_SIGNAL_STALE_SECONDS

\* the producer sent no timestamp, or one that does not parse
TimestampMissingOrUnparseable ==
    last.timestamp = None \/ ~Get(last.timestamp).iso

\* C32: signal ingestion with a missing or unparseable timestamp never fails:
\* the signal is stored with captured_at equal to the receipt time, so it is
\* fresh immediately after the ingestion (and until the staleness horizon has
\* passed since the receipt).
C32_BadTimestampFallsBackToReceipt ==
    (JustIngested /\ TimestampMissingOrUnparseable) =>
        /\ last.status = 200
        /\ IngestedSlot # None
        /\ Get(IngestedSlot).captured_at = last.received
        /\ last.body.timestamp = isoformat(last.received)
        /\ last.body.age_seconds = 0
        /\ (now = last.received => IngestedSlotFresh = IngestedSlot)
        /\ (IngestedSlotFresh # None <=> now - last.received <= IngestedHorizon)

\* C32 witness: a security signal with an unparseable timestamp was received
\* four seconds after start-up and is fresh at that instant
C32_Witness ==
    /\ JustIngested
    /\ last.kind = "security"
    /\ last.timestamp # None
    /\ ~Get(last.timestamp).iso
    /\ last.received = 4
    /\ now = 4
    /\ IngestedSlotFresh # None

\* the instant on the UTC axis that the timestamp of the latest ingestion spells
SentInstant ==
    IF Get(last.timestamp).offset = None THEN Get(last.timestamp).local
    ELSE Get(last.timestamp).local - Get(Get(last.timestamp).offset)

\* the producer sent a timestamp that parses and lies after the receipt time
TimestampInFuture ==
    /\ last.timestamp # None
    /\ Get(last.timestamp).iso
    /\ SentInstant > last.received

\* C37: a pushed signal whose timestamp lies in the future is treated as
\* having age 0: it is fresh from its ingestion until the clock passes its
\* timestamp plus the staleness horizon, so it can stay fresh for longer than
\* the horizon after it was received.
C37_FutureTimestampHasAgeZero ==
    (JustIngested /\ TimestampInFuture) =>
        /\ Get(IngestedSlot).captured_at = SentInstant
        /\ last.body.age_seconds = 0
        /\ (now <= SentInstant =>
                signal_age_seconds(Get(IngestedSlot).captured_at, now) = 0)
        /\ (IngestedSlotFresh # None <=> now <= SentInstant + IngestedHorizon)

\* C37 witness: a vision signal stamped in the future is still fresh when more
\* than the staleness horizon has passed since it was received
C37_Witness ==
    /\ JustIngested
    /\ last.kind = "vision"
    /\ TimestampInFuture
    /\ now - last.received > VISION_SIGNAL_STALE_SECONDS
    /\ IngestedSlotFresh # None

-----------------------------------------------------------------------------

(* analyze_payload on readings that carry a vision score, a vision flag, both
   or neither, and network fields at their defaults and beyond, against a
   signal store that is empty or holds fresh or stale external signals *)

LaneNow == 9

\* Vision fields of the reading: the score absent and across the threshold,
\* the flag absent, false and true
LaneVisionFields ==
    { [ vision_anomaly_score |-> score, vision_defect_flag |-> flag ] :
        score \in { None, Some(0), Some(60 * Scale - 1), Some(60 * Scale),
                    Some(100 * Scale) },
        flag \in { None, Some(FALSE), Some(TRUE) } }

\* Network fields of the reading: the packet rate at its default 0, near and
\* at the expected rate and above it
LaneNetworkFields ==
    { [ network_packet_rate |-> packet_rate, network_burst_ratio |-> burst_ratio,
        network_unauthorized_attempts |-> attempts, security_flag |-> flag ] :
      packet_rate \in { 0, 98, 130, 255 },
      burst_ratio \in { 0, 20, 72, 95 },
      attempts \in { 0, 1 },
      flag \in { None, Some(FALSE), Some(TRUE) } }

LaneReadings ==
    { [ GridReading(process, vision.vision_anomaly_score, network)
            EXCEPT !.vision_defect_flag = vision.vision_defect_flag ] :
          process \in GridProcessSamples, vision \in LaneVisionFields,
          network \in { [ network_packet_rate |-> 130, network_burst_ratio |-> 20,
                          network_unauthorized_attempts |-> 0,
                          security_flag |-> None ] } }
    \cup
    { GridReading(process, None, network) :
          process \in GridProcessSamples, network \in LaneNetworkFields }

\* The vision slot: empty, a signal at the edge of the staleness horizon and
\* one beyond it
LaneVisionSlots ==
    { None }
    \cup { Some(vision_signal_state(
               [ anomaly_score |-> 20 * Scale, defect_flag |-> TRUE,
                 model_version |-> Some("camera-v3"), inference_ms |-> 12,
                 source |-> "camera-simulator" ], captured_at)) :
           captured_at \in { LaneNow - VISION_SIGNAL_STALE_SECONDS,
                             LaneNow - VISION_SIGNAL_STALE_SECONDS - 1 } }

\* The security slot: empty, a fresh quiet signal, a fresh signal with only
\* its flag set, and an attack signal that has gone stale
LaneSecuritySlots ==
    { None,
      Some(security_signal_state(
               [ packet_rate |-> 130, burst_ratio |-> 20, unauthorized_attempts |-> 0,
                 security_flag |-> FALSE, source |-> "network-monitor",
                 sample_window_seconds |-> 1 ],
               LaneNow - SECURITY_SIGNAL_STALE_SECONDS)),
      Some(security_signal_state(
               [ packet_rate |-> 130, burst_ratio |-> 20, unauthorized_attempts |-> 0,
                 security_flag |-> TRUE, source |-> "network-monitor",
                 sample_window_seconds |-> 1 ],
               LaneNow)),
      Some(security_signal_state(
               [ packet_rate |-> 255, burst_ratio |-> 95, unauthorized_attempts |-> 2,
                 security_flag |-> TRUE, source |-> "network-monitor",
                 sample_window_seconds |-> 1 ],
               LaneNow - SECURITY_SIGNAL_STALE_SECONDS - 1)) }

\* A reading has arrived at POST /analyze
LaneInit ==
    /\ now = LaneNow
    /\ USE_FALLBACK_DRIFT_MODEL \in BOOLEAN
    /\ LATEST_VISION_SIGNAL \in LaneVisionSlots
    /\ LATEST_SECURITY_SIGNAL \in LaneSecuritySlots
    /\ FALLBACK_MODEL = WarmModel(MinSamples)
    /\ METRICS_COUNTERS = ZeroCounters
    /\ last \in { [ op |-> "reading", payload |-> payload ] : payload \in LaneReadings }
    /\ analyses = 0
    /\ StoreIdle
    /\ LedgerIdle
    /\ MetricsIdle
    /\ LoopIdle

LaneNext == analyze_reading

\* analyze_payload over vision and network fields and signal store contents
LaneSpec == LaneInit /\ [][LaneNext]_vars

-----------------------------------------------------------------------------

(* The two consumers of the external vision signal: POST /analyze, which
   reads the signal store, and the OpenPLC bridge, which reads GET /signals
   and derives its flags from the JSON it gets *)

\* Mutant of signals_payload: the scores are rounded to whole points
signals_payload_rounded(vision, security, t) ==
    JsonDict(
        [ vision |->
              IF vision = None THEN Some(JsonNull)
              ELSE Some(JsonDict(
                       [ fresh |-> Some(JsonBool(
                             signal_age_seconds(Get(vision).captured_at, t)
                                 <= VISION_SIGNAL_STALE_SECONDS)),
                         anomaly_score |->
                             Some(JsonNumber(int_round(Get(vision).anomaly_score) * Scale)),
                         defect_flag |-> Some(JsonBool(Get(vision).defect_flag)),
                         age_seconds |-> Some(JsonNumber(
                             signal_age_seconds(Get(vision).captured_at, t) * Scale)) ])),
          security |->
              IF security = None THEN Some(JsonNull)
              ELSE Some(JsonDict(
                       [ fresh |-> Some(JsonBool(
                             signal_age_seconds(Get(security).captured_at, t)
                                 <= SECURITY_SIGNAL_STALE_SECONDS)),
                         security_flag |-> Some(JsonBool(Get(security).security_flag)),
                         burst_ratio |-> Some(JsonNumber(Get(security).burst_ratio)),
                         unauthorized_attempts |->
                             Some(JsonInt(Get(security).unauthorized_attempts)),
                         age_seconds |-> Some(JsonNumber(
                             signal_age_seconds(Get(security).captured_at, t) * Scale)) ])) ])

\* GET /signals as the bridge receives it: the JSON object with the keys the
\* bridge reads, each signal an object or null
signals_payload(vision, security, t) ==
    JsonDict(
        [ vision |->
              IF vision = None THEN Some(JsonNull)
              ELSE Some(JsonDict(
                       [ fresh |-> Some(JsonBool(
                             signal_age_seconds(Get(vision).captured_at, t)
                                 <= VISION_SIGNAL_STALE_SECONDS)),
                         anomaly_score |-> Some(JsonNumber(Get(vision).anomaly_score)),
                         defect_flag |-> Some(JsonBool(Get(vision).defect_flag)),
                         age_seconds |-> Some(JsonNumber(
                             signal_age_seconds(Get(vision).captured_at, t) * Scale)) ])),
          security |->
              IF security = None THEN Some(JsonNull)
              ELSE Some(JsonDict(
                       [ fresh |-> Some(JsonBool(
                             signal_age_seconds(Get(security).captured_at, t)
                                 <= SECURITY_SIGNAL_STALE_SECONDS)),
                         security_flag |-> Some(JsonBool(Get(security).security_flag)),
                         burst_ratio |-> Some(JsonNumber(Get(security).burst_ratio)),
                         unauthorized_attempts |->
                             Some(JsonInt(Get(security).unauthorized_attempts)),
                         age_seconds |-> Some(JsonNumber(
                             signal_age_seconds(Get(security).captured_at, t) * Scale)) ])) ])

\* The vision slot: empty, or a signal with its score across the threshold
\* and its flag either way, received now, at the edge of the staleness
\* horizon or beyond it
ConsumerVisionSlots ==
    { None }
    \cup { Some(vision_signal_state(
               [ anomaly_score |-> score, defect_flag |-> flag,
                 model_version |-> Some("camera-v3"), inference_ms |-> 12,
                 source |-> "camera-simulator" ], captured_at)) :
           score \in { 0, 20 * Scale, 60 * Scale - 1, 60 * Scale, 95 * Scale },
           flag \in BOOLEAN,
           captured_at \in { LaneNow, LaneNow - VISION_SIGNAL_STALE_SECONDS,
                             LaneNow - VISION_SIGNAL_STALE_SECONDS - 1 } }

\* The readings analysed: the nominal one, which fires no process rule, and
\* one with a reject-rate rule fired
ConsumerReadings == { BaseReading, [ BaseReading EXCEPT !.reject_rate = 31 ] }

\* A signal is in the store; neither consumer has read it yet
ConsumersInit ==
    /\ now = LaneNow
    /\ USE_FALLBACK_DRIFT_MODEL \in BOOLEAN
    /\ LATEST_VISION_SIGNAL \in ConsumerVisionSlots
    /\ LATEST_SECURITY_SIGNAL = None
    /\ FALLBACK_MODEL = WarmModel(MinSamples)
    /\ METRICS_COUNTERS = ZeroCounters
    /\ last \in { [ op |-> "consumers", payload |-> payload, state |-> None,
                    result |-> None ] : payload \in ConsumerReadings }
    /\ analyses = 0
    /\ StoreIdle
    /\ LedgerIdle
    /\ MetricsIdle
    /\ LoopIdle

\* One cycle of the bridge's loop with the default thresholds: the fetch of
\* GET /signals succeeds and the state is derived from its payload, or it
\* fails and the state is the cleared one the loop starts from
bridge_cycle ==
    /\ last.op = "consumers"
    /\ last.state = None
    /\ \E fetched \in BOOLEAN :
          last' = [ last EXCEPT !.state =
                      Some(IF fetched
                           THEN derive_bridge_state(
                                    signals_payload(LATEST_VISION_SIGNAL,
                                                    LATEST_SECURITY_SIGNAL, now),
                                    60 * Scale, 72)
                           ELSE ClearedBridgeState) ]
    /\ UNCHANGED << now, LATEST_VISION_SIGNAL, LATEST_SECURITY_SIGNAL, METRICS_COUNTERS,
                    clockFrame >>

\* analyze_payload on the reading, against the same signal store
analyze_beside_bridge ==
    /\ last.op = "consumers"
    /\ last.result = None
    /\ TelemetryPayloadValid(last.payload)
    /\ LET out == analyze_payload(last.payload, LATEST_VISION_SIGNAL,
                                  LATEST_SECURITY_SIGNAL, FALLBACK_MODEL, now)
       IN /\ FALLBACK_MODEL' = out.model
          /\ last' = [ last EXCEPT !.result = Some(out.result) ]
    /\ analyses' = analyses + 1
    /\ UNCHANGED << now, LATEST_VISION_SIGNAL, LATEST_SECURITY_SIGNAL, METRICS_COUNTERS,
                    USE_FALLBACK_DRIFT_MODEL, storeVars, ledgerVars, metricsVars,
                    loopVars >>

ConsumersNext ==
    \/ clock_advances
    \/ bridge_cycle
    \/ analyze_beside_bridge

\* The bridge and POST /analyze beside each other
ConsumersSpec == ConsumersInit /\ [][ConsumersNext]_vars

-----------------------------------------------------------------------------

(* Properties of the engine, checked under Spec *)

Analyzed == last.op = "analyze"

VisionFresh ==
    /\ LATEST_VISION_SIGNAL # None
    /\ now - Get(LATEST_VISION_SIGNAL).captured_at <= VISION_SIGNAL_STALE_SECONDS

SecurityFresh ==
    /\ LATEST_SECURITY_SIGNAL # None
    /\ now - Get(LATEST_SECURITY_SIGNAL).captured_at <= SECURITY_SIGNAL_STALE_SECONDS

\* C1: analyze resolves the process lane in fixed precedence.  A reading that
\* carries vision_anomaly_score or vision_defect_flag gives
\* payload-vision-signal, with the lane values taken from the reading alone,
\* whatever the signal store holds; otherwise a fresh external vision signal
\* gives external-vision-signal; otherwise fallback-telemetry-drift when the
\* fallback is enabled; otherwise no-vision-signal with lane score 0.
C1_ProcessLanePrecedence ==
    Analyzed =>
        LET p == last.payload
            r == last.result
        IN IF p.vision_anomaly_score # None \/ p.vision_defect_flag # None
           THEN /\ r.process_source = "payload-vision-signal"
                /\ r.vision_anomaly_score =
                       (IF p.vision_anomaly_score # None THEN Get(p.vision_anomaly_score)
                        ELSE IF Get(p.vision_defect_flag) THEN 100 * Scale ELSE 0)
                /\ r.vision_defect_flag =
                       (IF p.vision_defect_flag # None THEN Get(p.vision_defect_flag)
                        ELSE Get(p.vision_anomaly_score) >= 60 * Scale)
                /\ r.vision_inference_ms = p.vision_inference_ms
                /\ r.model_version = (IF p.vision_model_version # None
                                      THEN Get(p.vision_model_version)
                                      ELSE MODEL_VERSION)
           ELSE IF VisionFresh
           THEN /\ r.process_source = "external-vision-signal"
                /\ r.vision_anomaly_score = Get(LATEST_VISION_SIGNAL).anomaly_score
                /\ r.vision_defect_flag = Get(LATEST_VISION_SIGNAL).defect_flag
           ELSE IF USE_FALLBACK_DRIFT_MODEL
           THEN r.process_source = "fallback-telemetry-drift"
           ELSE /\ r.process_source = "no-vision-signal"
                /\ r.vision_anomaly_score = 0
                /\ r.process_components[Len(r.process_components)]
                       = << "Vision model signal", 0 >>

\* C1 witness: the payload lane won against a fresh external vision signal
\* that says the opposite.
C1_Witness ==
    /\ Analyzed
    /\ VisionFresh
    /\ last.payload.vision_defect_flag = Some(TRUE)
    /\ last.payload.vision_anomaly_score = Some(95 * Scale)
    /\ ~Get(LATEST_VISION_SIGNAL).defect_flag
    /\ last.result.process_source = "payload-vision-signal"
    /\ last.result.process_anomaly

\* The network components that analyze reports for given network inputs
ExpectedNetworkComponents(packet_rate, burst_ratio, unauthorized_attempts, security_flag) ==
    << << "Packet-rate deviation",
          Min(35 * Scale, Abs(packet_rate - 130) * 110) >> >>
    \o (IF burst_ratio > 72
        THEN << << "Burst traffic anomaly", (burst_ratio - 72) * 90 >> >> ELSE << >>)
    \o (IF unauthorized_attempts > 0
        THEN << << "Unauthorized write attempts",
                   (35 + 10 * unauthorized_attempts) * Scale >> >> ELSE << >>)
    \o (IF security_flag THEN << << "Security flag lane", 42 * Scale >> >> ELSE << >>)

\* C2: with a fresh external security signal, analyze takes packet rate,
\* burst ratio and unauthorized-attempt count from the signal, sets
\* security_flag to (reading's flag or signal's flag) and network_source to
\* external-security-signal; without one it uses the reading's values, and
\* network_source is payload-security-signal when the reading supplied
\* security_flag (true or false), else telemetry.
C2_NetworkLane ==
    Analyzed =>
        LET p == last.payload
            r == last.result
            pflag == p.security_flag # None /\ Get(p.security_flag)
        IN IF SecurityFresh
           THEN LET sig == Get(LATEST_SECURITY_SIGNAL)
                IN /\ r.network_source = "external-security-signal"
                   /\ r.security_flag = (pflag \/ sig.security_flag)
                   /\ r.network_components =
                          ExpectedNetworkComponents(sig.packet_rate, sig.burst_ratio,
                                                    sig.unauthorized_attempts,
                                                    pflag \/ sig.security_flag)
           ELSE /\ r.network_source = (IF p.security_flag # None
                                       THEN "payload-security-signal" ELSE "telemetry")
                /\ r.security_flag = pflag
                /\ r.network_components =
                       ExpectedNetworkComponents(p.network_packet_rate, p.network_burst_ratio,
                                                 p.network_unauthorized_attempts, pflag)

\* C2 witness: a quiet fresh external signal overrode the attack figures of
\* the reading, whose own flag still raised the alert.
C2_Witness ==
    /\ Analyzed
    /\ SecurityFresh
    /\ ~Get(LATEST_SECURITY_SIGNAL).security_flag
    /\ Get(LATEST_SECURITY_SIGNAL).unauthorized_attempts = 0
    /\ last.payload.network_unauthorized_attempts = 2
    /\ last.payload.security_flag = Some(TRUE)
    /\ last.result.network_source = "external-security-signal"
    /\ last.result.security_flag
    /\ last.result.network_score = 42 * Scale

\* C3: get_fresh(kind) returns the stored signal exactly when its age at the
\* call is at most the kind's staleness horizon, and none otherwise.
C3_FreshBoundary ==
    last.op = "get_fresh" =>
        IF last.kind = "vision"
        THEN last.returned = (IF VisionFresh THEN LATEST_VISION_SIGNAL ELSE None)
        ELSE last.returned = (IF SecurityFresh THEN LATEST_SECURITY_SIGNAL ELSE None)

\* C3 witness: a vision signal whose age equals the horizon was returned.
C3_Witness ==
    /\ last.op = "get_fresh"
    /\ last.kind = "vision"
    /\ LATEST_VISION_SIGNAL # None
    /\ now - Get(LATEST_VISION_SIGNAL).captured_at = VISION_SIGNAL_STALE_SECONDS
    /\ last.returned = LATEST_VISION_SIGNAL

\* C4: analyze with a present-but-stale external signal of some kind returns
\* the same AnalysisResult, and makes the same drift update, as analyze with
\* no signal of that kind stored.
C4_StaleAsAbsent ==
    Analyzed =>
        /\ (LATEST_VISION_SIGNAL # None /\ ~VisionFresh) =>
               LET absent == analyze_payload(last.payload, None, LATEST_SECURITY_SIGNAL,
                                             last.model, now)
               IN /\ last.result = absent.result
                  /\ FALLBACK_MODEL = absent.model
        /\ (LATEST_SECURITY_SIGNAL # None /\ ~SecurityFresh) =>
               LET absent == analyze_payload(last.payload, LATEST_VISION_SIGNAL, None,
                                             last.model, now)
               IN /\ last.result = absent.result
                  /\ FALLBACK_MODEL = absent.model

\* C4 witness: analyze ran on a reading without vision fields while stale
\* alarming signals of both kinds were stored, and used neither.
C4_Witness ==
    /\ Analyzed
    /\ LATEST_VISION_SIGNAL # None /\ ~VisionFresh
    /\ LATEST_SECURITY_SIGNAL # None /\ ~SecurityFresh
    /\ Get(LATEST_VISION_SIGNAL).defect_flag
    /\ Get(LATEST_SECURITY_SIGNAL).security_flag
    /\ last.payload = BaseReading
    /\ last.result.process_source = "fallback-telemetry-drift"
    /\ last.result.network_source = "telemetry"
    /\ FALLBACK_MODEL # last.model

\* C10: for every accepted reading and every reachable signal store and drift
\* model, analyze returns both scores within [0, 100].
C10_ScoresInRange ==
    Analyzed =>
        /\ 0 <= last.result.process_score /\ last.result.process_score <= 100 * Scale
        /\ 0 <= last.result.network_score /\ last.result.network_score <= 100 * Scale

\* C10 witness: the rule contributions and the network terms both sum to
\* more than 100 and both scores are 100.
C10_Witness ==
    /\ Analyzed
    /\ last.payload.reject_rate = 40
    /\ last.payload.output_alarm_horn
    /\ last.payload.network_unauthorized_attempts = 2
    /\ ~SecurityFresh
    /\ last.result.process_score = 100 * Scale
    /\ last.result.network_score = 100 * Scale

-----------------------------------------------------------------------------
(* Properties of the signal store, checked under StoreSpec *)

\* C9: get_latest(kind) returns none until the first put of that kind after
\* a reset, and afterwards exactly the signal passed to the most recent
\* completed put of that kind, whole, whatever puts of the other kind and
\* whatever concurrent readers and writers there are.
C9_LatestIsLastCompletedPut ==
    \A t \in Threads :
        (thread[t].pc \in { "release", "returned" } /\ thread[t].op = "get") =>
            thread[t].ret = thread[t].seen

\* C9 witness: a get returned the second of two puts of its kind while a
\* writer of the same kind with another signal was waiting for the lock.
C9_Witness ==
    \E t \in Threads, u \in Threads :
        /\ thread[t].pc = "returned"
        /\ thread[t].kind = "vision"
        /\ thread[t].ret # None
        /\ Get(thread[t].ret).source = "camera-simulator"
        /\ thread[u].pc = "acquire"
        /\ thread[u].op = "set"
        /\ thread[u].kind = "vision"
        /\ thread[u].signal.source = "pytest-vision"
        /\ LATEST_SECURITY_SIGNAL # None

-----------------------------------------------------------------------------
(* Properties of the ledger, checked under LedgerSpec *)

\* C5: when the ledger append fails during POST /analyze, the caller still
\* receives the full computed AnalysisResult body; a persistence failure
\* never replaces or discards the computed result.
C5_ResultReturnedWhenAppendFails ==
    \A t \in Threads :
        (request[t].pc = "finished" /\ request[t].persisted = "failed") =>
            /\ request[t].outcome.kind = "return"
            /\ request[t].outcome = [ kind |-> "return",
                                      body |-> response_body(request[t].result) ]

\* The ids of the appends whose INSERT is running on some thread
RunningInsertIds(except) ==
    { request[u].id : u \in { v \in Threads \ { except } : request[v].pc = "insert" } }

\* C6: the appends to the ledger, concurrent ones included, receive pairwise
\* distinct ids, and an append that starts after another append has
\* returned receives a strictly larger id.
C6_DistinctIncreasingIds ==
    /\ \A i, j \in DOMAIN analysis_events :
           i # j => analysis_events[i].id # analysis_events[j].id
    /\ \A t \in Threads :
           request[t].pc = "insert" =>
               /\ request[t].id \notin RunningInsertIds(t)
               /\ \A i \in DOMAIN analysis_events :
                      analysis_events[i].id # request[t].id
    /\ \A t \in Threads :
           request[t].pc \in { "insert", "csv", "metrics" } =>
               request[t].id > request[t].after

\* C6 witness: two overlapping appends committed against the order of their
\* ids, and a third append that started after both had returned.
C6_Witness ==
    /\ Len(analysis_events) = 3
    /\ analysis_events[1].id = 2
    /\ analysis_events[2].id = 1
    /\ analysis_events[3].id = 3
    /\ \E t \in Threads : request[t].pc = "csv" /\ request[t].after = 2

\* no POST /analyze call is between drawing its id and the end of its INSERT
NoInsertRunning == \A t \in Threads : request[t].pc # "insert"

\* the ids of the rows the ledger holds
StoredIds == { analysis_events[i].id : i \in DOMAIN analysis_events }

\* C31: ledger ids are gap-free: after any sequence of append attempts, some
\* of which may fail, the ids of the stored entries are exactly 1..n for n
\* stored entries.
C31_LedgerIdsGapFree ==
    NoInsertRunning => StoredIds = 1..Len(analysis_events)

\* no POST /analyze call is in progress
NoRequestInProgress == \A t \in Threads : request[t].pc \in { "idle", "finished" }

\* C36: whenever no request is in progress, analyses_total equals the number
\* of ledger entries appended since the last reset of the counters: every
\* appended event has been counted and every counted analysis has been
\* appended, also when the append or the CSV mirror write that follows it
\* fails.
C36_AnalysesTotalMatchesLedger ==
    NoRequestInProgress => METRICS_COUNTERS.analyses_total = Len(analysis_events)

-----------------------------------------------------------------------------
(* Properties of the live feed, checked under FeedSpec *)

\* C7: within one live-feed session the ids of the emitted data frames are
\* strictly increasing and all greater than the client's starting id, so no
\* entry is delivered twice, under any interleaving of appends, polls, empty
\* polls and query failures.
C7_EmittedIdsIncrease ==
    /\ \A i \in DOMAIN session.emitted : session.emitted[i] > session.since_id
    /\ \A i, j \in DOMAIN session.emitted :
           i < j => session.emitted[i] < session.emitted[j]

\* C7 witness: a session that had a failed poll, then emitted two entries,
\* then an empty poll
C7_Witness ==
    /\ Len(session.emitted) = 2
    /\ session.error_frames = 1
    /\ session.last_frame.type = "keepalive"

\* C8: when a poll's ledger query fails the session emits one error frame,
\* leaves its cursor unchanged and polls again after the interval; no number
\* of query failures ends the session, only a client disconnect does.
C8_QueryFailureKeepsSession ==
    /\ [](session.pc = "closed" => disconnected)
    /\ [][ /\ session'.error_frames # session.error_frames =>
                  /\ session.pc = "fetch"
                  /\ session'.error_frames = session.error_frames + 1
                  /\ session'.last_frame.type = "error"
                  /\ session'.cursor_id = session.cursor_id
                  /\ session'.emitted = session.emitted
                  /\ session'.pc = "sleep"
           /\ (session.pc = "sleep" /\ session' # session) =>
                  /\ session'.pc = "check"
                  /\ session'.cursor_id = session.cursor_id
           /\ (session.pc = "check" /\ ~disconnected /\ session' # session) =>
                  /\ session'.pc = "fetch"
                  /\ session'.cursor_id = session.cursor_id
         ]_vars

\* C8 witness: after two failed polls, with an entry emitted in between, the
\* connected session is at its next poll with the cursor where the emitted
\* entry left it
C8_Witness ==
    /\ session.error_frames = 2
    /\ session.last_frame.type = "error"
    /\ session.emitted # << >>
    /\ session.cursor_id = session.emitted[Len(session.emitted)]
    /\ session.pc = "fetch"
    /\ ~disconnected

\* the text ends with a blank line: two line feeds
EndsWithBlankLine(text) ==
    /\ Len(text) >= 2
    /\ text[Len(text)] = LineFeed
    /\ text[Len(text) - 1] = LineFeed

\* C34: the live-feed stream first emits the retry hint, and every emission
\* after it (JSON data frame, keepalive comment, error event) is a complete
\* server-sent-event frame terminated by a blank line, that is two line-feed
\* characters, so that a client can separate consecutive frames.
C34_FramesEndWithBlankLine ==
    /\ (session.pc # "none" /\ session.polls = 0) => session.last_frame.type = "retry"
    /\ session.last_frame.type # "none" =>
           EndsWithBlankLine(yielded_text(session.last_frame))

-----------------------------------------------------------------------------
(* Properties of the unbounded live feed, checked under StreamSpec *)

\* the ledger holds a committed row with this id
Committed(k) == \E i \in DOMAIN analysis_events : analysis_events[i].id = k

\* a data frame with this id was sent to the session
Emitted(k) == \E i \in DOMAIN session.emitted : session.emitted[i] = k

\* the session is open and the id lies above the id it started from
AboveStart(k) == session.pc # "none" /\ k > Max(session.since_id, 0)

\* C26: every ledger entry with id greater than the session's starting id is
\* eventually emitted to the session, provided the client stays connected and
\* ledger queries succeed again and again; this includes entries committed by
\* requests that overlap the session's polls.
C26_EveryEntryEventuallyEmitted ==
    ([]~disconnected /\ []<><<live_fetch_events>>_vars)
        => \A k \in 1..MaxFeedRequests :
               [](Committed(k) /\ AboveStart(k) => <>Emitted(k))

-----------------------------------------------------------------------------
(* Properties of the drift windows across the service's operations, checked
   under FrameSpec *)

\* the step is a POST /analyze that reached the fallback model: the body has
\* no vision lane, the store holds no fresh vision signal, the fallback is on
FallbackEvaluationStep ==
    /\ analyses' = analyses + 1
    /\ last'.op = "request"
    /\ last'.route = "analyze"
    /\ ~payload_vision_present(last'.body)
    /\ get_fresh_vision_signal(LATEST_VISION_SIGNAL, now) = None
    /\ USE_FALLBACK_DRIFT_MODEL
    /\ FALLBACK_MODEL' = evaluate(FALLBACK_MODEL, last'.body).model

\* the step is reset_runtime_state_for_tests
ResetStep ==
    /\ FALLBACK_MODEL' = EmptyModel
    /\ LATEST_VISION_SIGNAL' = None
    /\ LATEST_SECURITY_SIGNAL' = None
    /\ METRICS_COUNTERS' = ZeroCounters
    /\ last' = NoCall

\* one of the three windows goes from non-empty to empty
SomeWindowEmptied ==
    \/ FALLBACK_MODEL.production_rate_history # << >>
           /\ FALLBACK_MODEL'.production_rate_history = << >>
    \/ FALLBACK_MODEL.reject_rate_history # << >>
           /\ FALLBACK_MODEL'.reject_rate_history = << >>
    \/ FALLBACK_MODEL.inflight_history # << >>
           /\ FALLBACK_MODEL'.inflight_history = << >>

WindowsFrame ==
    /\ (FALLBACK_MODEL' # FALLBACK_MODEL) => (FallbackEvaluationStep \/ ResetStep)
    /\ SomeWindowEmptied => ResetStep

\* C30: the drift windows change only through a fallback evaluation or the
\* reset: an analyze resolved by the payload vision lane or by a fresh
\* external vision signal, every signal ingestion, GET /signals, GET /metrics,
\* ledger query and live-feed poll leaves the three windows unchanged, and
\* only the reset empties them.
C30_WindowsChangeOnlyByFallbackOrReset == [][WindowsFrame]_vars

\* C30 witness: POST /analyze with a vision lane in its body has been
\* answered, the store holds a vision signal, the live-feed client has been
\* sent an entry, and the windows hold the two samples they started with
C30_Witness ==
    /\ last.op = "request"
    /\ last.route = "analyze"
    /\ last.status = 200
    /\ payload_vision_present(last.body)
    /\ analyses = 1
    /\ LATEST_VISION_SIGNAL # None
    /\ LATEST_SECURITY_SIGNAL # None
    /\ session.emitted # << >>
    /\ FALLBACK_MODEL = WarmModel(2)

-----------------------------------------------------------------------------
(* Properties of live-feed sessions sharing the event loop, checked under
   LoopSpec *)

\* the session is open and its generator waits to be resumed
WaitingToRun(s) == sessions[s].pc \in { "check", "emit", "sleep" }

\* C27: a live-feed session never prevents other sessions from making
\* progress: while one session's ledger query is in progress, every other
\* connected session can still take its next step (run its disconnect check
\* and poll, or emit its next frame).
C27_QueryDoesNotBlockOthers ==
    \A s \in Sessions :
        sessions[s].pc = "query" =>
            \A u \in Sessions \ { s } :
                WaitingToRun(u) => ENABLED session_step(u)

\* a step that leaves the session as it is, or closes it at the disconnect check
StopsAtCheck ==
    (session.pc = "check" /\ disconnected) => (session' = session \/ session'.pc = "closed")

\* a closed session stays as it is: no query, no frame
ClosedStaysClosed == (session.pc = "closed") => (session' = session)

\* C28: after the client disconnects, the session's loop terminates at its
\* next disconnect check; from then on it performs no further ledger query
\* and emits no further frame; and it does not run forever: a disconnect
\* leads to the closed session.
C28_LoopEndsAfterDisconnect ==
    /\ [][StopsAtCheck /\ ClosedStaysClosed]_vars
    /\ (disconnected ~> (session.pc = "closed"))

\* C28 witness: the session emitted one entry, the client went away, the loop
\* ended at its check, and a second entry committed to the ledger stays
\* unsent
C28_Witness ==
    /\ disconnected
    /\ session.pc = "closed"
    /\ session.cursor_id = 1
    /\ Emitted(1)
    /\ Committed(2)
    /\ ~Emitted(2)

-----------------------------------------------------------------------------
(* Properties of the fusion arithmetic, checked under GridSpec *)

\* C11: in every AnalysisResult process_anomaly is true exactly when
\* process_score >= 60, and network_alert is true exactly when
\* network_score >= 55 or the resolved security_flag is true; a true
\* security_flag forces network_alert even below the threshold.
C11_FlagsFollowThresholds ==
    Analyzed =>
        /\ last.result.process_anomaly <=> (last.result.process_score >= 60 * Scale)
        /\ last.result.network_alert <=>
               (last.result.network_score >= 55 * Scale \/ last.result.security_flag)
        /\ last.result.security_flag => last.result.network_alert

\* C11 witness: the security flag alone, 42 points, raises the alert below
\* the network threshold, and the process score is below its own
C11_Witness ==
    /\ Analyzed
    /\ last.result.security_flag
    /\ last.result.network_score = 42 * Scale
    /\ last.result.network_alert
    /\ last.result.process_score = 38 * Scale
    /\ ~last.result.process_anomaly

\* The sum of the fired rule contributions of a reading, in hundredths
RuleSum(payload) ==
    (IF payload.reject_rate > 12
     THEN Min(40 * Scale, (payload.reject_rate - 12) * 2 * Scale) ELSE 0)
    + (IF payload.production_rate < 4 /\ payload.conveyor_running THEN 22 * Scale ELSE 0)
    + (IF payload.in_flight_bottles > 6 THEN 25 * Scale ELSE 0)
    + (IF payload.output_alarm_horn THEN 12 * Scale ELSE 0)
    + (IF payload.output_reject_gate /\ payload.reject_rate > 8 THEN 10 * Scale ELSE 0)

\* The resolved vision-lane score, as the result reports it in the last
\* process component
LaneScore(result) == result.process_components[Len(result.process_components)][2]

\* C18: process_score equals clamp(max(R, L)), R the sum of the fired rule
\* contributions and L the resolved vision-lane score; so it is never below
\* L and never below min(R, 100).
C18_ProcessScoreIsMax ==
    Analyzed =>
        /\ last.result.process_score =
               Max(0, Min(100 * Scale,
                          Max(RuleSum(last.payload), LaneScore(last.result))))
        /\ last.result.process_score >= LaneScore(last.result)
        /\ last.result.process_score >= Min(RuleSum(last.payload), 100 * Scale)

\* C18 witness: one rule contributes 38, the lane scores 35, the result is 38
C18_Witness ==
    /\ Analyzed
    /\ RuleSum(last.payload) = 38 * Scale
    /\ LaneScore(last.result) = 35 * Scale
    /\ last.result.process_source = "payload-vision-signal"
    /\ last.result.process_score = 38 * Scale

\* The sum of the four network terms of a reading whose security flag
\* resolved to flag, in hundredths
NetworkSum(payload, flag) ==
    Min(35 * Scale, 110 * Abs(payload.network_packet_rate - 130))
    + (IF payload.network_burst_ratio > 72
       THEN (payload.network_burst_ratio - 72) * 90 ELSE 0)
    + (IF payload.network_unauthorized_attempts > 0
       THEN (35 + 10 * payload.network_unauthorized_attempts) * Scale ELSE 0)
    + (IF flag THEN 42 * Scale ELSE 0)

\* C19: network_score equals clamp of the sum of the four terms computed on
\* the resolved network inputs: min(35, 1.1 |packet_rate - 130|), 90 times
\* the burst ratio's excess over 0.72, 35 + 10 per unauthorized attempt when
\* there is one, and 42 when security_flag is true.  With no external
\* security signal the resolved inputs are the reading's.
C19_NetworkScoreIsSum ==
    (Analyzed /\ LATEST_SECURITY_SIGNAL = None) =>
        /\ last.result.network_source \in { "telemetry", "payload-security-signal" }
        /\ last.result.network_score =
               Max(0, Min(100 * Scale,
                          NetworkSum(last.payload, last.result.security_flag)))

\* C19 witness: packet-rate, burst and flag terms of 5.50, 20.70 and 42 sum
\* to 68.20
C19_Witness ==
    /\ Analyzed
    /\ last.payload.network_packet_rate = 125
    /\ last.payload.network_burst_ratio = 95
    /\ last.payload.network_unauthorized_attempts = 0
    /\ last.result.security_flag
    /\ last.result.network_score = 6820

\* C20: risk_level depends only on m = max(process_score, network_score):
\* critical when m >= 80, high when 60 <= m < 80, medium when 35 <= m < 60,
\* low otherwise.
C20_RiskLevelBands ==
    Analyzed =>
        LET m == Max(last.result.process_score, last.result.network_score)
        IN /\ (m >= 80 * Scale) <=> (last.result.risk_level = "critical")
           /\ (60 * Scale <= m /\ m < 80 * Scale) <=> (last.result.risk_level = "high")
           /\ (35 * Scale <= m /\ m < 60 * Scale) <=> (last.result.risk_level = "medium")
           /\ (m < 35 * Scale) <=> (last.result.risk_level = "low")

\* C20 witness: the larger score is exactly 35 and the level is medium
C20_Witness ==
    /\ Analyzed
    /\ last.result.process_score = 35 * Scale
    /\ last.result.network_score < 35 * Scale
    /\ last.result.risk_level = "medium"

\* C21: recommended_action is one of four fixed strings fixed by the pair
\* (process_anomaly, network_alert): the safety-lockout string when both are
\* true, the network string when only network_alert is, the process string
\* when only process_anomaly is, the baseline-monitoring string when neither.
C21_ActionFollowsFlags ==
    Analyzed =>
        last.result.recommended_action =
            CASE last.result.process_anomaly /\ last.result.network_alert ->
                     "Trigger safety lockout, isolate control network, inspect line for jam/reject spikes"
              [] ~last.result.process_anomaly /\ last.result.network_alert ->
                     "Segment PLC network, review suspicious traffic, and keep the line under close watch"
              [] last.result.process_anomaly /\ ~last.result.network_alert ->
                     "Run quality/mechanical inspection and verify camera model threshold calibration"
              [] ~last.result.process_anomaly /\ ~last.result.network_alert ->
                     "Continue baseline monitoring and keep collecting telemetry for drift tracking"

\* C21 witness: both flags set and the safety lockout recommended
C21_Witness ==
    /\ Analyzed
    /\ last.result.process_anomaly
    /\ last.result.network_alert
    /\ last.result.recommended_action =
           "Trigger safety lockout, isolate control network, inspect line for jam/reject spikes"

-----------------------------------------------------------------------------
(* Properties of the lanes, checked under LaneSpec *)

\* C33: on the payload vision lane, when only vision_anomaly_score is
\* supplied the defect flag is set to (score >= 60); when only
\* vision_defect_flag is supplied the lane score is 100 if the flag is true
\* and 0 if it is false; when both are supplied each is used as given.
C33_PayloadLaneDefaults ==
    Analyzed =>
        LET score == last.payload.vision_anomaly_score
            flag == last.payload.vision_defect_flag
            r == last.result
        IN /\ (score # None /\ flag = None) =>
                  /\ r.process_source = "payload-vision-signal"
                  /\ r.vision_anomaly_score = Get(score)
                  /\ LaneScore(r) = Get(score)
                  /\ r.vision_defect_flag = (Get(score) >= 60 * Scale)
           /\ (score = None /\ flag # None) =>
                  /\ r.process_source = "payload-vision-signal"
                  /\ r.vision_anomaly_score = (IF Get(flag) THEN 100 * Scale ELSE 0)
                  /\ LaneScore(r) = (IF Get(flag) THEN 100 * Scale ELSE 0)
                  /\ r.vision_defect_flag = Get(flag)
           /\ (score # None /\ flag # None) =>
                  /\ r.process_source = "payload-vision-signal"
                  /\ r.vision_anomaly_score = Get(score)
                  /\ LaneScore(r) = Get(score)
                  /\ r.vision_defect_flag = Get(flag)

\* C33 witness: a score of 59.99 alone leaves the flag false while a fresh
\* external signal with its flag set is in the store
C33_Witness ==
    /\ Analyzed
    /\ last.payload.vision_anomaly_score = Some(60 * Scale - 1)
    /\ last.payload.vision_defect_flag = None
    /\ VisionFresh
    /\ ~last.result.vision_defect_flag

\* C38: network_alert implies that risk_level is not low: in every
\* AnalysisResult with network_alert true, max(process_score, network_score)
\* is at least 35, because a true security_flag alone contributes 42 to
\* network_score.
C38_NetworkAlertIsNeverLowRisk ==
    (Analyzed /\ last.result.network_alert) =>
        /\ Max(last.result.process_score, last.result.network_score) >= 35 * Scale
        /\ last.result.risk_level # "low"
        /\ last.result.security_flag => last.result.network_score >= 42 * Scale

\* C38 witness: the alert is raised by the flag of a fresh external signal
\* alone, the network score is 42 and the risk level medium
C38_Witness ==
    /\ Analyzed
    /\ last.result.network_alert
    /\ last.result.network_source = "external-security-signal"
    /\ last.result.network_score = 42 * Scale
    /\ last.result.process_score < 35 * Scale
    /\ last.result.risk_level = "medium"

\* C39: with no fresh external security signal, a reading that leaves
\* network_packet_rate at its default 0 gets the full 35-point packet-rate
\* component, so its network_score is at least 35 and its risk_level is never
\* low, whatever its other fields are.
C39_DefaultPacketRateScores35 ==
    (Analyzed /\ ~SecurityFresh /\ last.payload.network_packet_rate = 0) =>
        /\ last.result.network_components[1] = << "Packet-rate deviation", 35 * Scale >>
        /\ last.result.network_score >= 35 * Scale
        /\ last.result.risk_level # "low"

\* C39 witness: a nominal reading but for the packet rate left at 0, a stale
\* attack signal in the store: network score 35, no alert, risk level medium
C39_Witness ==
    /\ Analyzed
    /\ last.payload.network_packet_rate = 0
    /\ LATEST_SECURITY_SIGNAL # None
    /\ ~SecurityFresh
    /\ last.result.network_score = 35 * Scale
    /\ ~last.result.network_alert
    /\ last.result.process_score = 0
    /\ last.result.risk_level = "medium"

-----------------------------------------------------------------------------

(* Properties of the consumers of the vision signal, checked under
   ConsumersSpec *)

\* both consumers have read the store, found the external vision signal
\* fresh and used it, and the reading fired no process rule
BothUsedFreshSignal ==
    /\ last.op = "consumers"
    /\ last.state # None
    /\ last.result # None
    /\ Get(last.state).vision_fresh
    /\ Get(last.result).process_source = "external-vision-signal"
    /\ RuleSum(last.payload) = 0

\* C40 as stated: for the same fresh external vision signal, the bridge's
\* process_flag (at process threshold 60) equals the process_anomaly that
\* analyze returns for a reading with no payload vision fields and no fired
\* process rule: the two consumers never disagree.
C40_BridgeAgreesWithAnalyze ==
    BothUsedFreshSignal =>
        Get(last.state).process_flag = Get(last.result).process_anomaly

\* C40 amended: the bridge's process_flag equals the signal's defect_flag
\* or-ed with the process_anomaly that analyze returns; the two consumers
\* agree whenever the signal's defect_flag is false or its score is at least
\* 60, and with the flag true and a score below 60 the bridge raises
\* process_flag while analyze reports process_anomaly false.
C40_BridgeFlagIsDefectOrAnomaly ==
    BothUsedFreshSignal =>
        /\ Get(last.state).process_flag =
               (Get(LATEST_VISION_SIGNAL).defect_flag
                    \/ Get(last.result).process_anomaly)
        /\ Get(last.result).process_anomaly =
               (Get(LATEST_VISION_SIGNAL).anomaly_score >= 60 * Scale)

\* C40 witness: a fresh signal with its flag set and a score of 20: the
\* bridge raises process_flag, analyze reports no process anomaly
C40_Witness ==
    /\ BothUsedFreshSignal
    /\ Get(LATEST_VISION_SIGNAL).defect_flag
    /\ Get(LATEST_VISION_SIGNAL).anomaly_score = 20 * Scale
    /\ Get(last.state).process_flag
    /\ ~Get(last.result).process_anomaly

-----------------------------------------------------------------------------

(* Properties of the baseline scenario, checked under BaselineSpec *)

\* Each window held fewer than 20 samples when the call started
ColdStart(model) ==
    /\ Len(model.production_rate_history) < MinSamples
    /\ Len(model.reject_rate_history) < MinSamples
    /\ Len(model.inflight_history) < MinSamples

\* C22: with an empty signal store and the drift windows in cold start, a
\* reading with reject_rate 1, production_rate 12, in_flight_bottles 3, no
\* vision or security fields, packet rate 130, burst ratio 0.2 and no
\* unauthorized attempts yields process_anomaly false, network_alert false
\* and risk_level low.
C22_BaselineIsQuiet ==
    (/\ Analyzed
     /\ LATEST_VISION_SIGNAL = None
     /\ LATEST_SECURITY_SIGNAL = None
     /\ ColdStart(last.model)
     /\ last.payload.reject_rate = 1
     /\ last.payload.production_rate = 12
     /\ last.payload.in_flight_bottles = 3
     /\ last.payload.vision_anomaly_score = None
     /\ last.payload.vision_defect_flag = None
     /\ last.payload.security_flag = None
     /\ last.payload.network_packet_rate = 130
     /\ last.payload.network_burst_ratio = 20
     /\ last.payload.network_unauthorized_attempts = 0)
    => /\ ~last.result.process_anomaly
       /\ ~last.result.network_alert
       /\ last.result.risk_level = "low"

\* C22 witness: the fallback lane judged the validator's reading against 19
\* samples of a jammed line, with the alarm horn on, and the result is quiet
C22_Witness ==
    /\ Analyzed
    /\ USE_FALLBACK_DRIFT_MODEL
    /\ last.model = FarModel(MinSamples - 1)
    /\ last.payload = [ BaseReading EXCEPT !.output_alarm_horn = TRUE ]
    /\ last.result.process_score = 12 * Scale
    /\ ~last.result.process_anomaly
    /\ ~last.result.network_alert
    /\ last.result.risk_level = "low"

-----------------------------------------------------------------------------
(* Properties of repeated analyses, checked under ReplaySpec *)

-----------------------------------------------------------------------------
(* Properties of the OpenPLC bridge, checked under BridgeSpec *)

\* the payload's signal under a key: the dict, or None when the payload is no
\* dict, the key is absent or its value is no dict
signal_of(payload, key) ==
    IF is_dict(payload) /\ is_dict(dict_get(payload, key))
    THEN Some(dict_get(payload, key))
    ELSE None

\* a signal is marked fresh when its "fresh" key holds true (or 1, or a
\* non-empty string); it is not when the key is absent, null, false, 0 or ""
NotMarkedFresh(sig) ==
    \/ sig = None
    \/ Get(sig).dict.fresh \in { None, Some(JsonNull), Some(JsonBool(FALSE)),
                                  Some(JsonInt(0)), Some(JsonStr("")) }

\* C24: for every signal that is missing or not marked fresh, the bridge
\* derives flag false and score 0 for that signal's lane (process for vision,
\* security for security), whatever the signal's score, flag, burst ratio or
\* unauthorized-attempt fields say.
C24_StaleSignalsAreIgnored ==
    (last.op = "bridge") =>
        /\ NotMarkedFresh(signal_of(last.payload, "vision")) =>
               /\ last.state.process_flag = FALSE
               /\ last.state.process_score = 0
        /\ NotMarkedFresh(signal_of(last.payload, "security")) =>
               /\ last.state.security_flag = FALSE
               /\ last.state.security_score = 0

\* C24 witness: both signals carry fresh = false with alarming fields (score
\* 99 with a defect, flag set with burst 0.99 and four attempts), under the
\* default thresholds, and the derived state is all clear
C24_Witness ==
    /\ last.op = "bridge"
    /\ last.process_threshold = 60 * Scale
    /\ last.burst_threshold = 72
    /\ signal_of(last.payload, "vision") =
           Some(JsonDict([ fresh |-> Some(JsonBool(FALSE)),
                           anomaly_score |-> Some(JsonNumber(9900)),
                           defect_flag |-> Some(JsonBool(TRUE)),
                           age_seconds |-> Some(JsonNumber(4 * Scale)) ]))
    /\ signal_of(last.payload, "security") =
           Some(JsonDict([ fresh |-> Some(JsonBool(FALSE)),
                           security_flag |-> Some(JsonBool(TRUE)),
                           burst_ratio |-> Some(JsonNumber(99)),
                           unauthorized_attempts |-> Some(JsonInt(4)),
                           age_seconds |-> Some(JsonNumber(9 * Scale)) ]))
    /\ last.state.process_flag = FALSE
    /\ last.state.security_flag = FALSE
    /\ last.state.process_score = 0
    /\ last.state.security_score = 0

-----------------------------------------------------------------------------
(* Properties of the drift windows under concurrent requests, checked under
   WindowSpec *)

\* the request has read a window and has not yet made its last append
InsideEvaluate(t) ==
    request[t].pc \in { "reject_z", "inflight_z", "append_rate", "append_reject",
                        "append_inflight" }

\* C25: accesses to the three drift windows by concurrent analyze requests are
\* mutually exclusive: no request reads or appends to a window while another
\* request is between the start of its scoring and the end of its three
\* appends.
C25_WindowAccessExclusive ==
    \A t \in Threads : \A u \in Threads \ { t } :
        ~(InsideEvaluate(t) /\ InsideEvaluate(u))

\* no POST /analyze call is inside the fallback evaluation
NoEvaluationInProgress == \A t \in Threads : request[t].pc = "idle"

\* the i-th elements of the three windows are the values of one reading
FromOneReading(i) ==
    \E payload \in DriftReadings :
        /\ FALLBACK_MODEL.production_rate_history[i] = payload.production_rate
        /\ FALLBACK_MODEL.reject_rate_history[i] = payload.reject_rate
        /\ FALLBACK_MODEL.inflight_history[i] = payload.in_flight_bottles

\* C35: whenever no analyze request is in progress, the three drift windows
\* have the same length, at most 120, and for every index i their i-th
\* elements come from the same reading; this holds after any interleaving of
\* concurrently executing analyze requests.
C35_WindowsStayAligned ==
    NoEvaluationInProgress =>
        /\ Len(FALLBACK_MODEL.production_rate_history) <= window_size
        /\ Len(FALLBACK_MODEL.reject_rate_history)
               = Len(FALLBACK_MODEL.production_rate_history)
        /\ Len(FALLBACK_MODEL.inflight_history)
               = Len(FALLBACK_MODEL.production_rate_history)
        /\ \A i \in DOMAIN FALLBACK_MODEL.production_rate_history : FromOneReading(i)

-----------------------------------------------------------------------------
(* Properties of the drift model, checked under DriftSpec *)

\* C17: after a reset, evaluate returns score 0 and an empty reason list
\* whenever the windows hold fewer than 20 earlier fallback samples, whatever
\* the reading's values; in particular for each of the first 19 evaluations.
C17_ColdStartScoresZero ==
    (/\ last.op = "evaluate"
     /\ Len(last.model.production_rate_history) < 20
     /\ Len(last.model.reject_rate_history) < 20
     /\ Len(last.model.inflight_history) < 20) =>
        /\ last.score = 0
        /\ last.reasons = << >>

\* C17 witness: the windows hold 19 nominal samples, the reading is far from
\* all of them, and the evaluation returns 0 with no reason
C17_Witness ==
    /\ last.op = "evaluate"
    /\ Len(last.model.production_rate_history) = 19
    /\ last.model.production_rate_history[19] = 12
    /\ last.payload = DriftingReading
    /\ last.score = 0
    /\ last.reasons = << >>
    /\ Len(FALLBACK_MODEL.production_rate_history) = 20

\* ml_score of a reading against given windows
drift_score(model, payload) ==
    TheOne({ clamp(((rate_z * 35 + reject_z * 40 + inflight_z * 25) * 22) \div 100,
                   0, 100 * Scale) :
             rate_z \in { zscore(payload.production_rate, model.production_rate_history) },
             reject_z \in { zscore(payload.reject_rate, model.reject_rate_history) },
             inflight_z \in { zscore(payload.in_flight_bottles, model.inflight_history) } })

\* the window after the call: the window before it with the value appended,
\* less its oldest element when it was full
AppendedTo(before, after, value) ==
    /\ after # << >>
    /\ after[Len(after)] = value
    /\ IF Len(before) >= window_size
       THEN Len(after) = window_size /\ after = Append(Tail(before), value)
       ELSE after = Append(before, value)

\* C29: evaluate computes the three z-scores from the windows as they were
\* before the call, so the returned score is the score against the history
\* without the reading; afterwards the newest element of each window is the
\* reading's value, the oldest being evicted when the window already held 120.
C29_ScoredThenAppended ==
    (last.op = "evaluate") =>
        /\ last.score = drift_score(last.model, last.payload)
        /\ AppendedTo(last.model.production_rate_history,
                      FALLBACK_MODEL.production_rate_history,
                      last.payload.production_rate)
        /\ AppendedTo(last.model.reject_rate_history,
                      FALLBACK_MODEL.reject_rate_history, last.payload.reject_rate)
        /\ AppendedTo(last.model.inflight_history,
                      FALLBACK_MODEL.inflight_history, last.payload.in_flight_bottles)

\* C29 witness: the mild reading evaluated against full windows of 120; its
\* score differs from the score the windows holding it would give, the
\* windows still hold 120 and end with the reading's values
C29_Witness ==
    /\ last.op = "evaluate"
    /\ last.payload = MildReading
    /\ Len(last.model.production_rate_history) = window_size
    /\ Len(FALLBACK_MODEL.production_rate_history) = window_size
    /\ FALLBACK_MODEL.production_rate_history[window_size] = 14
    /\ FALLBACK_MODEL.reject_rate_history[window_size] = 2
    /\ FALLBACK_MODEL.inflight_history[window_size] = 4
    /\ last.score > 0
    /\ last.score # drift_score(FALLBACK_MODEL, last.payload)

-----------------------------------------------------------------------------
(* Properties of the metrics counters, checked under MetricsSpec *)

AllHandlersIdle == \A t \in Threads : handler[t].pc = "idle"

\* C12: whenever every request has completed, analyses_total is the number of
\* POST /analyze calls that returned, process_anomalies_total and
\* network_alerts_total are the numbers of those whose result had the flag
\* set, and vision_signals_ingested and security_signals_ingested are the
\* numbers of signal posts that returned: no increment is lost or doubled.
C12_CountersMatchCompletedCalls ==
    AllHandlersIdle => \A c \in CounterNames : METRICS_COUNTERS[c] = returned[c]

\* Two analyses returned, one of them flagged, and a signal post of each kind
C12_Witness ==
    /\ AllHandlersIdle
    /\ METRICS_COUNTERS.analyses_total = 2
    /\ METRICS_COUNTERS.process_anomalies_total = 1
    /\ METRICS_COUNTERS.network_alerts_total = 1
    /\ METRICS_COUNTERS.vision_signals_ingested = 1
    /\ METRICS_COUNTERS.security_signals_ingested = 1

-----------------------------------------------------------------------------
(* Properties of ledger queries, checked under QuerySpec *)

Queried == last.op = "query"

\* The ids of the stored rows a query with this after_id selects
MatchingIds(after_id) ==
    { analysis_events[i].id : i \in DOMAIN analysis_events } \ 
        (IF after_id = None THEN {} ELSE { id \in 0..Get(after_id) : TRUE })

\* id a comes before id b in the requested direction
Before(a, b, ascending) == IF ascending THEN a < b ELSE a > b

\* C13: a query with after_id = k returns only entries with id above k, in
\* increasing id order when ascending and decreasing otherwise (GET /events:
\* newest first), and they are the first ones in that order: every stored
\* matching entry that was not returned comes after the last one returned.
C13_QueryOrderedPrefix ==
    Queried =>
        LET out == last.events
            ids == { out[i].id : i \in DOMAIN out }
        IN /\ ids \subseteq MatchingIds(last.after_id)
           /\ last.after_id # None => \A i \in DOMAIN out : out[i].id > Get(last.after_id)
           /\ \A i \in DOMAIN out :
                 i > 1 => Before(out[i - 1].id, out[i].id, last.ascending)
           /\ last.route = "events" => ~last.ascending
           /\ \A id \in MatchingIds(last.after_id) \ ids :
                 /\ out # << >>
                 /\ Before(out[Len(out)].id, id, last.ascending)

\* On the long table, whose rows were committed in swapped order, the
\* ascending query after id 100 with limit 2 returns ids 101 and 102
C13_Witness ==
    /\ Queried
    /\ Len(analysis_events) = LargeTableRows
    /\ last.ascending
    /\ last.after_id = Some(100)
    /\ last.limit = 2
    /\ Len(last.events) = 2
    /\ last.events[1].id = 101
    /\ last.events[2].id = 102

\* C14: for every requested limit N, also N <= 0 and N > 200, a ledger query
\* returns at most max(1, min(N, 200)) entries.
C14_AtMostSafeLimit ==
    Queried => Len(last.events) <= Max(1, Min(last.limit, 200))

\* Limit 1000 against more than 200 rows returns exactly 200
C14_Witness ==
    /\ Queried
    /\ last.limit = 1000
    /\ Len(analysis_events) > 200
    /\ Len(last.events) = 200

-----------------------------------------------------------------------------
(* Properties of the service's routes, checked under ArchiveSpec and ServiceSpec *)

\* This step leaves every stored row where and as it was
RowsKept ==
    \A i \in DOMAIN analysis_events :
        /\ i \in DOMAIN analysis_events'
        /\ analysis_events'[i] = analysis_events[i]

\* The event is the stored row of its id, as _parse_event_row renders it
IsStoredEntry(event) ==
    \E j \in DOMAIN analysis_events :
        /\ analysis_events[j].id = event.id
        /\ event = parse_event_row(analysis_events[j])

\* The stored row at j is among the newest max(1, min(limit, 200)) rows
AmongNewest(j, limit) ==
    Cardinality({ k \in DOMAIN analysis_events :
                      analysis_events[k].id > analysis_events[j].id })
        < Max(1, Min(limit, 200))

\* C15: no step of the service (analyze, signal ingestion, queries, the live
\* feed, the reset hook) modifies or removes a stored row; GET /events returns
\* every stored row its limit covers, and every entry it or a live-feed poll
\* returns is the stored row of that id with its content unchanged.
C15_LedgerAppendOnly ==
    /\ [][RowsKept]_vars
    /\ [](/\ (last.op = "query") =>
                 /\ \A i \in DOMAIN last.events : IsStoredEntry(last.events[i])
                 /\ \A j \in DOMAIN analysis_events :
                        AmongNewest(j, last.limit) =>
                            \E i \in DOMAIN last.events :
                                last.events[i] = parse_event_row(analysis_events[j])
          /\ \A i \in DOMAIN session.batch : IsStoredEntry(session.batch[i]))

\* The row from before the restart and a new one, both delivered by the live
\* feed and both returned by GET /events, after the reset hook has run
C15_Witness ==
    /\ Len(analysis_events) = 2
    /\ analysis_events[1] = LedgerRow(1)
    /\ last.op = "query"
    /\ Len(last.events) = 2
    /\ session.emitted = << 1, 2 >>
    /\ METRICS_COUNTERS.analyses_total = 0

\* The body breaks a field constraint the claim names
OutOfRange(route, body) ==
    CASE route = "analyze" ->
             \/ /\ body.vision_anomaly_score # None
                /\ \/ Get(body.vision_anomaly_score) < 0
                   \/ Get(body.vision_anomaly_score) > 100 * Scale
             \/ body.network_burst_ratio < 0
             \/ body.network_unauthorized_attempts < 0
      [] route = "signals/vision" ->
             \/ body.anomaly_score < 0
             \/ body.anomaly_score > 100 * Scale
      [] route = "signals/security" ->
             \/ body.burst_ratio < 0
             \/ body.unauthorized_attempts < 0
             \/ body.sample_window_seconds <= 0

\* C16: a request whose body has vision_anomaly_score outside [0, 100], a
\* negative burst ratio or unauthorized-attempt count, or
\* sample_window_seconds <= 0 is rejected (422) and never invokes the engine:
\* the signal store, the drift windows, the counters and the ledger are
\* unchanged by it.
C16_RejectedRequestChangesNothing ==
    [][(last'.op = "request" /\ OutOfRange(last'.route, last'.body)) =>
           /\ last'.status = 422
           /\ UNCHANGED << LATEST_VISION_SIGNAL, LATEST_SECURITY_SIGNAL, FALLBACK_MODEL,
                           METRICS_COUNTERS, analyses, analysis_events_id_seq,
                           analysis_events, csv_rows >>]_vars

\* A rejected request met a service with a stored signal, a sample in the
\* drift windows, a counted analysis and a ledger row
C16_Witness ==
    /\ last.op = "request"
    /\ OutOfRange(last.route, last.body)
    /\ last.status = 422
    /\ LATEST_VISION_SIGNAL # None
    /\ FALLBACK_MODEL # EmptyModel
    /\ METRICS_COUNTERS.analyses_total = 1
    /\ Len(analysis_events) = 1

=============================================================================
